---------------------------- MODULE Spec2Model ----------------------------
(***************************************************************************)
(* A model of the TikZ designer (src/fully_compiled.py): the geometry      *)
(* helpers, the shape classes, and the TikzDesigner controller with its    *)
(* Document (self.shapes), History (self.actions), Selection, click        *)
(* staging buffer and cursor-mode state.                                   *)
(*                                                                         *)
(* Numbers.  Python computes with floats; here every quantity is an        *)
(* integer.  Coordinates are whole pixels (pointer events deliver          *)
(* integers), angles are whole degrees, and the trigonometric functions    *)
(* are evaluated from a sine table in thousandths, exact at multiples of   *)
(* 90 degrees.  Half and Third are integer divisions, exact on the         *)
(* coordinates the specifications below feed in.                           *)
(*                                                                         *)
(* Identity.  A shape object is an identifier 1, 2, ... handed out in      *)
(* creation order and never reused; obj maps the identifier of every       *)
(* object still referenced to its fields.  `s is t` is equality of         *)
(* identifiers.                                                            *)
(***************************************************************************)
EXTENDS Integers, Sequences, FiniteSets, TLC

\* Python's None: where a tuple or a record is expected, where a string is, where a
\* list index is, where an angle is, and where a shape is.
None == <<>>
NoneS == "None"
NoIndex == -1
NoAngle == 999
NoShape == 0

Last(s) == s[Len(s)]
Front(s) == SubSeq(s, 1, Len(s) - 1)
Range(s) == {s[i] : i \in 1..Len(s)}
Abs(n) == IF n < 0 THEN -n ELSE n
Max2(a, b) == IF a >= b THEN a ELSE b

(***************************************************************************)
(* Geometry helpers                                                        *)
(***************************************************************************)

\* n / 2 and n / 3 of the source (true division), on integers.
Half(n) == n \div 2
Third(n) == n \div 3

\* A faulty variant of RoundHalfEven: x / step is cut off, not rounded.
RoundDown(x, step) == x \div step

\* Python's round(x / step): the nearest integer, a tie going to the even one.
RoundHalfEven(x, step) ==
    LET q == x \div step
        r == x % step
    IN  IF 2 * r < step THEN q
        ELSE IF 2 * r > step THEN q + 1
        ELSE IF q % 2 = 0 THEN q ELSE q + 1

snap(x, y, enabled, step) ==
    IF ~enabled THEN <<x, y>>
    ELSE <<RoundHalfEven(x, step) * step, RoundHalfEven(y, step) * step>>

\* sin(k degrees) * 1000, k = 0..90, at index k + 1.
SinTab ==
    << 0, 17, 35, 52, 70, 87, 105, 122, 139, 156, 174, 191, 208,
       225, 242, 259, 276, 292, 309, 326, 342, 358, 375, 391, 407, 423,
       438, 454, 469, 485, 500, 515, 530, 545, 559, 574, 588, 602, 616,
       629, 643, 656, 669, 682, 695, 707, 719, 731, 743, 755, 766, 777,
       788, 799, 809, 819, 829, 839, 848, 857, 866, 875, 883, 891, 899,
       906, 914, 921, 927, 934, 940, 946, 951, 956, 961, 966, 970, 974,
       978, 982, 985, 988, 990, 993, 995, 996, 998, 999, 999, 1000, 1000 >>

\* math.sin(math.radians(deg)) and math.cos(...), in thousandths.
Sin1000(deg) ==
    LET d == deg % 360
    IN  IF d <= 90 THEN SinTab[d + 1]
        ELSE IF d <= 180 THEN SinTab[180 - d + 1]
        ELSE IF d <= 270 THEN -SinTab[d - 180 + 1]
        ELSE -SinTab[360 - d + 1]

Cos1000(deg) == Sin1000(deg + 90)

\* n / 1000 rounded to the nearest integer.
Round1000(n) == (n + 500) \div 1000

\* Rotate (px,py) about (cx,cy) by deg degrees (canvas y grows downward).
rotate_point(px, py, cx, cy, deg) ==
    LET s == Sin1000(deg)
        c == Cos1000(deg)
        x == px - cx
        y == py - cy
        rx == x * c - y * s
        ry == x * s + y * c
    IN  <<cx + Round1000(rx), cy + Round1000(ry)>>

\* The square of math.hypot(p - q).
DistSq(p, q) == (p[1] - q[1]) * (p[1] - q[1]) + (p[2] - q[2]) * (p[2] - q[2])

\* The integer square root (floor), by bisection on lo <= sqrt(n) < hi.
RECURSIVE SqrtBetween(_, _, _)
SqrtBetween(n, lo, hi) ==
    IF hi - lo <= 1 THEN lo
    ELSE LET mid == (lo + hi) \div 2
         IN  IF mid * mid <= n THEN SqrtBetween(n, mid, hi)
             ELSE SqrtBetween(n, lo, mid)

ISqrt(n) == SqrtBetween(n, 0, n + 1)

\* A faulty variant of distance: the sum of the two coordinate differences.
distanceAlongAxes(p, q) == Abs(p[1] - q[1]) + Abs(p[2] - q[2])

\* math.hypot(p[0]-q[0], p[1]-q[1]) in whole pixels.
distance(p, q) == ISqrt(DistSq(p, q))

\* atan2 of a direction in the open first quadrant (ax > 0, ay > 0), to the
\* nearest degree: the k whose unit vector has the smallest cross product with it.
AtanQ1(ay, ax) ==
    LET Cross(k) == Abs(ay * Cos1000(k) - ax * Sin1000(k))
        below == {k \in 0..89 : ay * Cos1000(k) >= ax * Sin1000(k)}
        kf == CHOOSE k \in below : \A j \in below : j <= k
    IN  IF Cross(kf + 1) < Cross(kf) THEN kf + 1 ELSE kf

\* math.degrees(math.atan2(dy, dx)): in (-180, 180], and 0 for the zero vector.
Atan2Deg(dy, dx) ==
    IF dy = 0 THEN (IF dx >= 0 THEN 0 ELSE 180)
    ELSE IF dx = 0 THEN (IF dy > 0 THEN 90 ELSE -90)
    ELSE LET a == AtanQ1(Abs(dy), Abs(dx))
             up == IF dx > 0 THEN a ELSE 180 - a
         IN  IF dy > 0 THEN up ELSE -up

\* Angle in degrees from p0 to p1.
angle_between(p0, p1) == Atan2Deg(p1[2] - p0[2], p1[1] - p0[1])

(***************************************************************************)
(* Shapes.  A shape is a record of the fields its class stores; kind is    *)
(* the class name.  Of the presentation attributes only width and          *)
(* fill_enabled are kept (the dot tool derives a radius from the width).   *)
(***************************************************************************)

LineSeg(p0, p1, width) ==
    [kind |-> "LineSeg", p0 |-> p0, p1 |-> p1, width |-> width, fill_enabled |-> FALSE]

Arrow(p0, p1, width) ==
    [kind |-> "Arrow", p0 |-> p0, p1 |-> p1, width |-> width, fill_enabled |-> FALSE]

QuadBezier(p0, p1, c, width) ==
    [kind |-> "QuadBezier", p0 |-> p0, p1 |-> p1, c |-> c,
     width |-> width, fill_enabled |-> FALSE]

RectShape(p0, p1, width, fill_enabled, angle) ==
    [kind |-> "RectShape", p0 |-> p0, p1 |-> p1, angle |-> angle,
     width |-> width, fill_enabled |-> fill_enabled]

EllipseShape(p0, p1, width, fill_enabled, angle) ==
    [kind |-> "EllipseShape",
     cx |-> Half(p0[1] + p1[1]), cy |-> Half(p0[2] + p1[2]),
     rx |-> Half(Abs(p1[1] - p0[1])), ry |-> Half(Abs(p1[2] - p0[2])),
     angle |-> angle, width |-> width, fill_enabled |-> fill_enabled]

CircleShape(center, radius, width, fill_enabled) ==
    [kind |-> "CircleShape", center |-> center, radius |-> radius,
     width |-> width, fill_enabled |-> fill_enabled]

TextNode(pos) ==
    [kind |-> "TextNode", pos |-> pos]

ArcShape(center, radius, start_angle, end_angle, width) ==
    [kind |-> "ArcShape", center |-> center, radius |-> radius,
     start_angle |-> start_angle, end_angle |-> end_angle,
     width |-> width, fill_enabled |-> FALSE]

IsLine(s) == s.kind \in {"LineSeg", "Arrow"}

\* LineSeg.center / RectShape.center
Midpoint(s) == <<Half(s.p0[1] + s.p1[1]), Half(s.p0[2] + s.p1[2])>>

\* The centroid QuadBezier.handles and QuadBezier.rotate_by compute.
QuadCentroid(s) ==
    <<Third(s.p0[1] + s.p1[1] + s.c[1]), Third(s.p0[2] + s.p1[2] + s.c[2])>>

\* fmt(x), the text f"{x:.2f}", held as the number of hundredths it shows.
fmt(x) == 100 * x

\* The text the text tool places (the initial value of the entry), by character.
TextValue == <<"H", "e", "l", "l", "o">>

\* text.replace('\\', '\\\\').replace('%', '\\%'), by character.
RECURSIVE Escape(_)
Escape(t) ==
    IF t = <<>> THEN <<>>
    ELSE LET c == Head(t)
         IN  (IF c = "\\" THEN <<"\\", "\\">>
              ELSE IF c = "%" THEN <<"\\", "%">>
              ELSE <<c>>) \o Escape(Tail(t))

\* A faulty variant of RotateAround: the stored angle is exported as it is.
RotateAroundStored(s, c) ==
    IF s.angle # 0 THEN [angle |-> fmt(s.angle), about |-> <<fmt(c[1]), fmt(c[2])>>]
    ELSE None

\* The "rotate around" option of a rectangle or an ellipse about (cx, cy).
RotateAround(s, c) ==
    IF s.angle # 0 THEN [angle |-> fmt(-s.angle), about |-> <<fmt(c[1]), fmt(c[2])>>]
    ELSE None

\* shape.to_tikz(): the one command a shape is exported as.  The command is
\* held as a record of its parts, in place of the text; the colours are not
\* part of it here.
ToTikz(s) ==
    CASE s.kind = "LineSeg" ->
           [cmd |-> "\\draw", width |-> s.width, arrow |-> FALSE,
            path |-> << <<fmt(s.p0[1]), fmt(s.p0[2])>>, "--",
                        <<fmt(s.p1[1]), fmt(s.p1[2])>> >>]
      [] s.kind = "Arrow" ->
           [cmd |-> "\\draw", width |-> s.width, arrow |-> TRUE,
            path |-> << <<fmt(s.p0[1]), fmt(s.p0[2])>>, "--",
                        <<fmt(s.p1[1]), fmt(s.p1[2])>> >>]
      [] s.kind = "QuadBezier" ->
           [cmd |-> "\\draw", width |-> s.width,
            path |-> << <<fmt(s.p0[1]), fmt(s.p0[2])>>, ".. controls",
                        <<fmt(s.c[1]), fmt(s.c[2])>>, "..",
                        <<fmt(s.p1[1]), fmt(s.p1[2])>> >>]
      [] s.kind = "RectShape" ->
           [cmd |-> "\\draw", width |-> s.width, fill |-> s.fill_enabled,
            rotate |-> RotateAround(s, Midpoint(s)),
            path |-> << <<fmt(s.p0[1]), fmt(s.p0[2])>>, "rectangle",
                        <<fmt(s.p1[1]), fmt(s.p1[2])>> >>]
      [] s.kind = "EllipseShape" ->
           [cmd |-> "\\draw", width |-> s.width, fill |-> s.fill_enabled,
            rotate |-> RotateAround(s, <<s.cx, s.cy>>),
            path |-> << <<fmt(s.cx), fmt(s.cy)>>, "ellipse",
                        [x_radius |-> fmt(s.rx), y_radius |-> fmt(s.ry)] >>]
      [] s.kind = "CircleShape" ->
           [cmd |-> "\\draw", width |-> s.width, fill |-> s.fill_enabled,
            path |-> << <<fmt(s.center[1]), fmt(s.center[2])>>, "circle",
                        [radius |-> fmt(s.radius)] >>]
      [] s.kind = "TextNode" ->
           [cmd |-> "\\node", at |-> <<fmt(s.pos[1]), fmt(s.pos[2])>>,
            text |-> Escape(TextValue)]
      [] s.kind = "ArcShape" ->
           [cmd |-> "\\draw", width |-> s.width,
            path |-> << <<fmt(s.center[1]), fmt(s.center[2])>>, "++",
                        <<fmt(s.start_angle), fmt(s.radius)>>, "arc",
                        [start_angle |-> fmt(s.start_angle),
                         end_angle |-> fmt(s.end_angle),
                         radius |-> fmt(s.radius)] >>]

\* shape.handles(): the list of (x, y, kind).
Handles(s) ==
    CASE IsLine(s) ->
           LET m == Midpoint(s)
           IN  << <<s.p0[1], s.p0[2], "p0">>, <<s.p1[1], s.p1[2], "p1">>,
                  <<m[1], m[2], "move">>, <<m[1], m[2] - 36, "rotate">> >>
      [] s.kind = "QuadBezier" ->
           LET m == QuadCentroid(s)
           IN  << <<s.p0[1], s.p0[2], "p0">>, <<s.p1[1], s.p1[2], "p1">>,
                  <<s.c[1], s.c[2], "control">>,
                  <<m[1], m[2], "move">>, <<m[1], m[2] - 36, "rotate">> >>
      [] s.kind = "RectShape" ->
           LET m == Midpoint(s)
               r == rotate_point(m[1], m[2] - 40, m[1], m[2], s.angle)
           IN  << <<m[1], m[2], "move">>, <<r[1], r[2], "rotate">> >>
      [] s.kind = "EllipseShape" ->
           LET r == rotate_point(s.cx, s.cy - 40, s.cx, s.cy, s.angle)
           IN  << <<s.cx, s.cy, "move">>, <<r[1], r[2], "rotate">> >>
      [] s.kind = "CircleShape" ->
           << <<s.center[1], s.center[2], "move">>,
              <<s.center[1] + s.radius, s.center[2], "radius">>,
              <<s.center[1], s.center[2] - 40, "rotate">> >>
      [] s.kind = "TextNode" ->
           << <<s.pos[1], s.pos[2], "move">> >>
      [] s.kind = "ArcShape" ->
           << <<s.center[1], s.center[2], "move">>,
              <<s.center[1] + Round1000(s.radius * Cos1000(s.start_angle)),
                s.center[2] + Round1000(s.radius * Sin1000(s.start_angle)), "start">>,
              <<s.center[1] + Round1000(s.radius * Cos1000(s.end_angle)),
                s.center[2] + Round1000(s.radius * Sin1000(s.end_angle)), "end">> >>

\* A faulty variant of Shift: a coordinate is not moved below 0.
ShiftClamped(p, dx, dy) == <<Max2(0, p[1] + dx), Max2(0, p[2] + dy)>>

\* (x + dx, y + dy)
Shift(p, dx, dy) == <<p[1] + dx, p[2] + dy>>

\* shape.move_by(dx, dy)
MoveBy(s, dx, dy) ==
    CASE IsLine(s) \/ s.kind = "RectShape" ->
           [s EXCEPT !.p0 = Shift(@, dx, dy), !.p1 = Shift(@, dx, dy)]
      [] s.kind = "QuadBezier" ->
           [s EXCEPT !.p0 = Shift(@, dx, dy), !.p1 = Shift(@, dx, dy),
                     !.c = Shift(@, dx, dy)]
      [] s.kind = "EllipseShape" ->
           [s EXCEPT !.cx = @ + dx, !.cy = @ + dy]
      [] s.kind \in {"CircleShape", "ArcShape"} ->
           [s EXCEPT !.center = Shift(@, dx, dy)]
      [] s.kind = "TextNode" ->
           [s EXCEPT !.pos = Shift(@, dx, dy)]

\* A faulty variant of RotateBy: the angles are added up without the reduction
\* modulo 360.
RotateByUnreduced(s, ddeg) ==
    CASE IsLine(s) ->
           LET m == Midpoint(s)
           IN  [s EXCEPT !.p0 = rotate_point(@[1], @[2], m[1], m[2], ddeg),
                         !.p1 = rotate_point(@[1], @[2], m[1], m[2], ddeg)]
      [] s.kind = "QuadBezier" ->
           LET m == QuadCentroid(s)
           IN  [s EXCEPT !.p0 = rotate_point(@[1], @[2], m[1], m[2], ddeg),
                         !.p1 = rotate_point(@[1], @[2], m[1], m[2], ddeg),
                         !.c = rotate_point(@[1], @[2], m[1], m[2], ddeg)]
      [] s.kind \in {"RectShape", "EllipseShape"} ->
           [s EXCEPT !.angle = @ + ddeg]
      [] s.kind = "ArcShape" ->
           [s EXCEPT !.start_angle = @ + ddeg, !.end_angle = @ + ddeg]
      [] s.kind \in {"CircleShape", "TextNode"} -> s

\* shape.rotate_by(ddeg)
RotateBy(s, ddeg) ==
    CASE IsLine(s) ->
           LET m == Midpoint(s)
           IN  [s EXCEPT !.p0 = rotate_point(@[1], @[2], m[1], m[2], ddeg),
                         !.p1 = rotate_point(@[1], @[2], m[1], m[2], ddeg)]
      [] s.kind = "QuadBezier" ->
           LET m == QuadCentroid(s)
           IN  [s EXCEPT !.p0 = rotate_point(@[1], @[2], m[1], m[2], ddeg),
                         !.p1 = rotate_point(@[1], @[2], m[1], m[2], ddeg),
                         !.c = rotate_point(@[1], @[2], m[1], m[2], ddeg)]
      [] s.kind \in {"RectShape", "EllipseShape"} ->
           [s EXCEPT !.angle = (@ + ddeg) % 360]
      [] s.kind = "ArcShape" ->
           [s EXCEPT !.start_angle = (@ + ddeg) % 360,
                     !.end_angle = (@ + ddeg) % 360]
      [] s.kind \in {"CircleShape", "TextNode"} -> s

\* A faulty variant of RotateTo: an arc's end angle is set to the target as well.
RotateToCollapsing(s, deg) ==
    CASE s.kind \in {"RectShape", "EllipseShape"} ->
           [s EXCEPT !.angle = deg % 360]
      [] s.kind = "ArcShape" ->
           [s EXCEPT !.start_angle = deg % 360, !.end_angle = deg % 360]
      [] OTHER -> s

\* A faulty variant of RotateTo: the target is taken for a delta.
RotateToRelative(s, deg) ==
    CASE s.kind \in {"RectShape", "EllipseShape"} ->
           [s EXCEPT !.angle = (@ + deg) % 360]
      [] s.kind = "ArcShape" ->
           [s EXCEPT !.start_angle = (@ + deg) % 360,
                     !.end_angle = (@ + deg) % 360]
      [] OTHER -> s

\* shape.rotate_to(deg)
RotateTo(s, deg) ==
    CASE s.kind \in {"RectShape", "EllipseShape"} ->
           [s EXCEPT !.angle = deg % 360]
      [] s.kind = "ArcShape" ->
           LET delta == (deg - s.start_angle) % 360
           IN  [s EXCEPT !.start_angle = deg % 360,
                         !.end_angle = (@ + delta) % 360]
      [] OTHER -> s

\* shape.on_handle_drag(kind, x, y)
OnHandleDrag(s, kind, x, y) ==
    CASE IsLine(s) ->
           IF kind = "p0" THEN [s EXCEPT !.p0 = <<x, y>>]
           ELSE IF kind = "p1" THEN [s EXCEPT !.p1 = <<x, y>>]
           ELSE s
      [] s.kind = "QuadBezier" ->
           IF kind = "p0" THEN [s EXCEPT !.p0 = <<x, y>>]
           ELSE IF kind = "p1" THEN [s EXCEPT !.p1 = <<x, y>>]
           ELSE IF kind = "control" THEN [s EXCEPT !.c = <<x, y>>]
           ELSE s
      [] s.kind \in {"RectShape", "EllipseShape"} -> s
      [] s.kind = "CircleShape" ->
           IF kind = "radius"
           THEN [s EXCEPT !.radius = Max2(0, distance(s.center, <<x, y>>))]
           ELSE s
      [] s.kind = "TextNode" ->
           IF kind = "move" THEN [s EXCEPT !.pos = <<x, y>>] ELSE s
      [] s.kind = "ArcShape" ->
           IF kind = "move" THEN [s EXCEPT !.center = <<x, y>>]
           ELSE IF kind = "start"
           THEN [s EXCEPT !.start_angle =
                     Atan2Deg(y - s.center[2], x - s.center[1]) % 360]
           ELSE IF kind = "end"
           THEN [s EXCEPT !.end_angle =
                     Atan2Deg(y - s.center[2], x - s.center[1]) % 360]
           ELSE s

\* hasattr(shape, "angle"): angle is a class attribute of Shape, so every shape has it.
HasAngle(s) == TRUE

\* shape.angle: the instance field of a Rect or Ellipse, else Shape.angle = 0.0.
AngleOf(s) == IF s.kind \in {"RectShape", "EllipseShape"} THEN s.angle ELSE 0


(***************************************************************************)
(* Bounds of the model and program constants                               *)
(***************************************************************************)

\* The number of shape objects ever created.
MaxShapes == 2
\* The length the click-staging buffer may reach (the source sets no limit).
MaxClicks == 3
\* |x|, |y| of the centroid a Move drag may take a shape to.
MaxCoord == 40
\* The number of method calls made on a shape taken on its own.
MaxCalls == 2
\* The number of rotate_by and rotate_to calls made on a shape taken on its own.
MaxTurns == 3

\* self.grid_step and self.width, the values __init__ gives them.
GridStep == 20
StrokeWidth == 2
\* self.fill_enabled, the value __init__ gives it.
FillEnabled == FALSE

\* The values of self.tool: the radio buttons of _build_ui.
Tools == {"cursor", "line", "arrow", "quad", "rect", "ellipse", "circle",
          "text", "dot", "arc"}

(***************************************************************************)
(* State of TikzDesigner                                                   *)
(***************************************************************************)
VARIABLES
    tool,               \* self.tool
    snap_enabled,       \* self.snap_enabled
    shapes,             \* self.shapes: the Document, a sequence of object identifiers
    obj,                \* the fields of every referenced shape object
    next_id,            \* the identifier the next created object gets
    actions,            \* self.actions: the History
    clicks,             \* self._clicks
    staged_by,          \* ghost: the tool that was active at each click in _clicks
    selected,           \* self.selected: None or (shape, handles_cache)
    cursor_mode,        \* self._cursor_mode
    active_handle,      \* self._active_handle
    drag_start,         \* self._drag_start
    rotate_base_angle,  \* self._rotate_base_angle
    rotate_center,      \* self._rotate_center
    status,             \* self.status
    button,             \* pointer button 1 is held (between <Button-1> and <ButtonRelease-1>)
    pc,                 \* "undo_to" while the loop of undo_to_selected runs, else "idle"
    target_len,         \* target_len of undo_to_selected while its loop runs
    trace,              \* history variable: the last handler and the state it started in
    run                 \* history variable: the adds and undos since the Document was empty

vars == <<tool, snap_enabled, shapes, obj, next_id, actions, clicks, staged_by,
          selected,
          cursor_mode, active_handle, drag_start, rotate_base_angle,
          rotate_center, status, button, pc, target_len, trace, run>>

ctl == <<cursor_mode, active_handle, drag_start, rotate_base_angle, rotate_center>>

Other == [op |-> "other", shapes |-> <<>>, actions |-> <<>>]
Off == [on |-> FALSE]

\* The state __init__ leaves.
Init ==
    /\ tool = "cursor"
    /\ snap_enabled = TRUE
    /\ shapes = <<>>
    /\ obj = <<>>
    /\ next_id = 1
    /\ actions = <<>>
    /\ clicks = <<>>
    /\ staged_by = <<>>
    /\ selected = None
    /\ cursor_mode = NoneS
    /\ active_handle = NoneS
    /\ drag_start = None
    /\ rotate_base_angle = NoAngle
    /\ rotate_center = None
    /\ status = "Cursor: click a shape to select, drag to move. Use the round handle to rotate."
    /\ button = FALSE
    /\ pc = "idle"
    /\ target_len = 0
    /\ trace = Other
    /\ run = [on |-> TRUE, base |-> <<>>, adds |-> <<>>, undos |-> 0]

\* The objects an action record refers to.
ActionShapes(a) == IF a.type = "clear" THEN Range(a.shapes) ELSE {a.shape}

\* The objects still referenced from the Document, the History or the Selection.
LiveIds(shps, acts, sel) ==
    Range(shps) \cup UNION {ActionShapes(acts[i]) : i \in 1..Len(acts)}
                \cup (IF sel = None THEN {} ELSE {sel.shape})

\* o without the objects nothing refers to any more.
Collect(o, shps, acts, sel) ==
    [i \in (DOMAIN o) \cap LiveIds(shps, acts, sel) |-> o[i]]

\* [s for s in self.shapes if s is not shp]
Without(shps, shp) == SelectSeq(shps, LAMBDA s : s # shp)

\* self.shapes.index(shape): the first position (0-based) holding the object; NoIndex
\* stands for the None _on_delete_key keeps when the object is absent.
IndexOf(shps, shp) ==
    IF shp \in Range(shps)
    THEN (CHOOSE i \in 1..Len(shps) :
              shps[i] = shp /\ \A j \in 1..(i - 1) : shps[j] # shp) - 1
    ELSE NoIndex

\* A faulty variant of InsertAt: the shape goes to the end of the list.
InsertAtEnd(shps, idx, shp) == Append(shps, shp)

\* list.insert(idx, shp), idx 0-based with 0 <= idx <= len
InsertAt(shps, idx, shp) ==
    SubSeq(shps, 1, idx) \o <<shp>> \o SubSeq(shps, idx + 1, Len(shps))

(***************************************************************************)
(* History variables.  trace names the handler that ran last and keeps the *)
(* Document and History it started from; run follows a scenario of adds    *)
(* followed by undos that starts whenever the Document is empty.           *)
(***************************************************************************)

Structural == {"add", "remove", "clear"}

\* trace after a handler `op` that started in the current state.
Mark(op) == [op |-> op, shapes |-> shapes, actions |-> actions]

\* trace after a call of undo(): also the handler before it and the state that one
\* started in.
MarkUndo ==
    [op |-> "undo", shapes |-> shapes, actions |-> actions, selected |-> selected,
     after |-> trace.op,
     before |-> IF trace.op \in Structural
                THEN [shapes |-> trace.shapes, actions |-> trace.actions]
                ELSE None]

\* run when the scenario is broken: a new one starts if the Document is empty.
Restart(shps, acts) ==
    IF shps = <<>> THEN [on |-> TRUE, base |-> acts, adds |-> <<>>, undos |-> 0]
    ELSE Off

\* run after _add_shape recorded a: the scenario goes on while no undo has been
\* made in it, and a new one starts if the Document was empty.
RunAfterAdd(a) ==
    IF run.on /\ run.undos = 0 THEN [run EXCEPT !.adds = Append(@, a)]
    ELSE IF shapes = <<>>
    THEN [on |-> TRUE, base |-> actions, adds |-> <<a>>, undos |-> 0]
    ELSE Off

RunAfterUndo(shps, acts) ==
    IF run.on /\ run.undos < Len(run.adds) THEN [run EXCEPT !.undos = @ + 1]
    ELSE Restart(shps, acts)

(***************************************************************************)
(* Document and History                                                    *)
(***************************************************************************)

\* A faulty variant of AddAction: the index recorded is the Document's length after
\* the append.
AddActionLengthAfter(shp, idx) == [type |-> "add", shape |-> shp, index |-> idx + 1]

\* The record _add_shape appends for shape shp, idx the Document's length before.
AddAction(shp, idx) == [type |-> "add", shape |-> shp, index |-> idx]

\* _add_shape(shape), shape a newly constructed object with the fields rec.
AddShape(rec) ==
    LET idx == Len(shapes)
        act == AddAction(next_id, idx)
    IN  /\ next_id <= MaxShapes
        /\ shapes' = Append(shapes, next_id)
        /\ obj' = (next_id :> rec) @@ obj
        /\ next_id' = next_id + 1
        /\ actions' = Append(actions, act)
        /\ selected' = [shape |-> next_id, handles |-> Handles(rec)]
        /\ trace' = Mark("add") @@ [shape |-> next_id]
        /\ run' = RunAfterAdd(act)

\* A faulty variant of UndoShapes: undoing an add leaves the shape in the Document.
UndoShapesKeepAdded(shps, act) ==
    CASE act.type = "remove" ->
           IF act.index = NoIndex \/ act.index < 0 \/ act.index > Len(shps)
           THEN Append(shps, act.shape)
           ELSE InsertAt(shps, act.index, act.shape)
      [] act.type = "clear" -> act.shapes
      [] OTHER -> shps

\* A faulty variant of UndoShapes: undoing an add drops the Document's first shape
\* instead of the shape the Action names.
UndoShapesDropFirst(shps, act) ==
    CASE act.type = "add" -> IF shps = <<>> THEN shps ELSE Tail(shps)
      [] act.type = "remove" ->
           IF act.index = NoIndex \/ act.index < 0 \/ act.index > Len(shps)
           THEN Append(shps, act.shape)
           ELSE InsertAt(shps, act.index, act.shape)
      [] act.type = "clear" -> act.shapes
      [] OTHER -> shps

\* The Document undo() leaves when it pops act.
UndoShapes(shps, act) ==
    CASE act.type = "add" -> Without(shps, act.shape)
      [] act.type = "remove" ->
           IF act.index = NoIndex \/ act.index < 0 \/ act.index > Len(shps)
           THEN Append(shps, act.shape)
           ELSE InsertAt(shps, act.index, act.shape)
      [] act.type = "clear" -> act.shapes
      [] OTHER -> shps

UndoStatus(act) ==
    CASE act.type = "add" -> "Undo: removed the previously added shape."
      [] act.type = "remove" -> "Undo: restored the previously removed shape."
      [] act.type = "clear" -> "Undo: restored shapes that were cleared."
      [] OTHER -> "Undo: unknown action type (no change)."

\* A faulty variant of UndoActions: no Action is popped.
UndoActionsNoPop(acts) == acts

\* A faulty variant of UndoActions: the oldest Action is dropped, not the newest.
UndoActionsDropFirst(acts) == Tail(acts)

\* The History undo() leaves: self.actions.pop().
UndoActions(acts) == Front(acts)

\* A faulty variant of UndoSelected: only the cached handles are dropped.
UndoSelectedKeepShape(sel) ==
    IF sel = None THEN None ELSE [sel EXCEPT !.handles = <<>>]

\* A faulty variant of UndoSelected: the Selection is kept.
UndoSelectedKeep(sel) == sel

\* The Selection undo() leaves after popping an action.
UndoSelected(sel) == None

\* A faulty variant of NothingToUndo: another message.
NothingToUndoOther == "Undo: unknown action type (no change)."

\* The status undo() sets when the History is empty.
NothingToUndo == "Nothing to undo."

\* undo()
DoUndo ==
    /\ IF actions = <<>>
       THEN /\ status' = NothingToUndo
            /\ run' = RunAfterUndo(shapes, actions)
            /\ UNCHANGED <<shapes, obj, actions, selected>>
       ELSE LET act == Last(actions)
                shps == UndoShapes(shapes, act)
                acts == UndoActions(actions)
                sel == UndoSelected(selected)
            IN  /\ shapes' = shps
                /\ actions' = acts
                /\ selected' = sel
                /\ obj' = Collect(obj, shps, acts, sel)
                /\ status' = UndoStatus(act)
                /\ run' = RunAfterUndo(shps, acts)

\* No handler runs while undo_to_selected's loop does.
Idle == pc = "idle"

\* <Control-z> and the Undo button: undo()
Undo ==
    /\ Idle
    /\ DoUndo
    /\ trace' = MarkUndo
    /\ UNCHANGED <<tool, snap_enabled, next_id, clicks, staged_by, ctl, button, pc, target_len>>

\* A faulty variant of ClearActions: the Action keeps the list object itself, which
\* clear() then empties.
ClearActionsAliased(acts, shps) == Append(acts, [type |-> "clear", shapes |-> <<>>])

\* A faulty variant of ClearShapes: the newest shape stays in the Document.
ClearShapesKeepsLast(shps) == IF shps = <<>> THEN shps ELSE <<Last(shps)>>

\* The Document, History and Selection clear() leaves once confirmed.
ClearShapes(shps) == <<>>
ClearActions(acts, shps) == Append(acts, [type |-> "clear", shapes |-> shps])

\* clear(); confirm is the answer to messagebox.askyesno.
Clear(confirm) ==
    /\ Idle
    /\ IF shapes = <<>>
       THEN /\ status' = "Canvas already clear."
            /\ trace' = Mark("other")
            /\ UNCHANGED <<shapes, obj, actions, selected, run>>
       ELSE IF confirm
       THEN /\ actions' = ClearActions(actions, shapes)
            /\ shapes' = ClearShapes(shapes)
            /\ selected' = None
            /\ obj' = Collect(obj, shapes', actions', None)
            /\ status' = "Cleared all shapes. Use Undo (Ctrl+Z) to restore."
            /\ trace' = Mark("clear")
            /\ run' = Restart(shapes', actions')
       ELSE /\ trace' = Mark("other")
            /\ UNCHANGED <<shapes, obj, actions, selected, status, run>>
    /\ UNCHANGED <<tool, snap_enabled, next_id, clicks, staged_by, ctl, button, pc, target_len>>

\* A faulty variant of RemoveAction: the index recorded is counted from 1.
RemoveActionOneBased(shps, shp) ==
    [type |-> "remove", shape |-> shp, index |-> IndexOf(shps, shp) + 1]

\* A faulty variant of RemoveAction: no index is recorded.
RemoveActionNoIndex(shps, shp) == [type |-> "remove", shape |-> shp, index |-> NoIndex]

\* The record _on_delete_key appends for the selected shape.
RemoveAction(shps, shp) == [type |-> "remove", shape |-> shp, index |-> IndexOf(shps, shp)]

\* A faulty variant of OnDeleteKey: the active tool is not looked at.
OnDeleteKeyAnyTool ==
    /\ Idle
    /\ IF selected = None
       THEN /\ status' = "No shape currently selected to delete."
            /\ trace' = Mark("other")
            /\ UNCHANGED <<shapes, obj, actions, selected, run>>
       ELSE LET shape == selected.shape
            IN  /\ actions' = Append(actions, RemoveAction(shapes, shape))
                /\ shapes' = Without(shapes, shape)
                /\ selected' = None
                /\ obj' = Collect(obj, shapes', actions', None)
                /\ status' = "Deleted selected shape. Use Undo (Ctrl+Z) to restore."
                /\ trace' = Mark("remove") @@ [shape |-> shape]
                /\ run' = Restart(shapes', actions')
    /\ UNCHANGED <<tool, snap_enabled, next_id, clicks, staged_by, ctl, button, pc, target_len>>

\* _on_delete_key(event): <Delete> and <BackSpace>
OnDeleteKey ==
    /\ Idle
    /\ IF tool # "cursor"
       THEN /\ trace' = Mark("other")
            /\ UNCHANGED <<shapes, obj, actions, selected, status, run>>
       ELSE IF selected = None
       THEN /\ status' = "No shape currently selected to delete."
            /\ trace' = Mark("other")
            /\ UNCHANGED <<shapes, obj, actions, selected, run>>
       ELSE LET shape == selected.shape
            IN  /\ actions' = Append(actions, RemoveAction(shapes, shape))
                /\ shapes' = Without(shapes, shape)
                /\ selected' = None
                /\ obj' = Collect(obj, shapes', actions', None)
                /\ status' = "Deleted selected shape. Use Undo (Ctrl+Z) to restore."
                /\ trace' = Mark("remove") @@ [shape |-> shape]
                /\ run' = Restart(shapes', actions')
    /\ UNCHANGED <<tool, snap_enabled, next_id, clicks, staged_by, ctl, button, pc, target_len>>

\* A faulty variant of TargetLen: the selected Action is undone too.
TargetLenExclusive(k) == k

\* target_len = target_index + 1
TargetLen(k) == k + 1

\* undo_to_selected() of the History dialog, with list entry k selected: the test
\* before its loop.  The dialog lists the History as it was when it was opened and
\* stays open beside the main window, so k may lie beyond the History's end.
UndoToSelected(k) ==
    /\ Idle
    /\ IF Len(actions) <= TargetLen(k)
       THEN /\ UNCHANGED <<pc, target_len>>
            /\ trace' = Mark("undoTo") @@ [k |-> k, calls |-> 0, done |-> TRUE]
       ELSE /\ pc' = "undo_to"
            /\ target_len' = TargetLen(k)
            /\ trace' = Mark("undoTo") @@ [k |-> k, calls |-> 0, done |-> FALSE]
    /\ UNCHANGED <<tool, snap_enabled, shapes, obj, next_id, actions, clicks, staged_by,
                   selected, ctl, status, button, run>>

\* One turn of `while len(self.actions) > target_len: self.undo()`.
UndoToStep ==
    /\ pc = "undo_to"
    /\ Len(actions) > target_len
    /\ DoUndo
    /\ trace' = [trace EXCEPT !.calls = @ + 1]
    /\ UNCHANGED <<tool, snap_enabled, next_id, clicks, staged_by, ctl, button, pc, target_len>>

\* The loop's exit, and win.destroy().
UndoToDone ==
    /\ pc = "undo_to"
    /\ Len(actions) <= target_len
    /\ pc' = "idle"
    /\ target_len' = 0
    /\ trace' = [trace EXCEPT !.done = TRUE]
    /\ UNCHANGED <<tool, snap_enabled, shapes, obj, next_id, actions, clicks, staged_by,
                   selected, ctl, status, button, run>>

(***************************************************************************)
(* Interaction controller                                                  *)
(***************************************************************************)

\* msgs.get(t, f"Tool: {t} selected.") of _on_tool_change
ToolStatus(t) ==
    CASE t = "cursor" -> "Cursor: click a shape to select; drag to move; use round handle to rotate; Del to delete."
      [] t = "line" -> "Line tool: click start, click end to finish."
      [] t = "arrow" -> "Arrow tool: click start, click end to finish."
      [] t = "rect" -> "Rectangle tool: click first corner, then click opposite corner."
      [] t = "ellipse" -> "Ellipse tool: click first corner, then click opposite corner."
      [] t = "circle" -> "Circle tool: click center, then click edge to set radius."
      [] t = "quad" -> "Quad Bezier: click start, click end, then click/drag to place control."
      [] t = "dot" -> "Dot tool: click to place a dot (small filled circle)."
      [] t = "text" -> "Tool: text selected."
      [] t = "arc" -> "Tool: arc selected."

\* The user picks a tool (a radio button bound to self.tool); _on_tool_change.
SetTool(t) ==
    /\ Idle
    /\ tool' = t
    /\ status' = ToolStatus(t)
    /\ trace' = Mark("other")
    /\ UNCHANGED <<snap_enabled, shapes, obj, next_id, actions, clicks, staged_by, selected,
                   ctl, button, pc, target_len, run>>

\* A faulty variant of CancelTemp: Escape takes back only the last staged click.
CancelTempLastOnly ==
    /\ Idle
    /\ clicks' = IF clicks = <<>> THEN <<>> ELSE Front(clicks)
    /\ staged_by' = IF staged_by = <<>> THEN <<>> ELSE Front(staged_by)
    /\ trace' = Mark("other")
    /\ UNCHANGED <<tool, snap_enabled, shapes, obj, next_id, actions, selected,
                   ctl, status, button, pc, target_len, run>>

\* _cancel_temp(): <Escape>
CancelTemp ==
    /\ Idle
    /\ clicks' = <<>>
    /\ staged_by' = <<>>
    /\ trace' = Mark("other")
    /\ UNCHANGED <<tool, snap_enabled, shapes, obj, next_id, actions, selected,
                   ctl, status, button, pc, target_len, run>>

\* A faulty variant of ShapeAt: the search runs in Document order and returns the
\* bottom-most shape under the pointer.
ShapeAtBottom(hit) ==
    IF \E i \in 1..Len(shapes) : shapes[i] \in hit
    THEN shapes[CHOOSE i \in 1..Len(shapes) :
                    /\ shapes[i] \in hit
                    /\ \A j \in 1..(i - 1) : shapes[j] \notin hit]
    ELSE NoShape

\* _shape_at(x, y): the topmost shape among those the canvas reports under the
\* pointer.  hit is the set of Document shapes owning an item of
\* canvas.find_overlapping(x-3, y-3, x+3, y+3), the canvas's answer.
ShapeAt(hit) ==
    IF \E i \in 1..Len(shapes) : shapes[i] \in hit
    THEN shapes[CHOOSE i \in 1..Len(shapes) :
                    /\ shapes[i] \in hit
                    /\ \A j \in (i + 1)..Len(shapes) : shapes[j] \notin hit]
    ELSE NoShape

\* A faulty variant of Closest: the first handle of the shape, however far it is.
ClosestFirst(hs, x, y) == IF hs = <<>> THEN None ELSE hs[1]

\* The loop of _cursor_down over shape.handles(): the first handle at the least
\* distance from (x, y), None when no handle is nearer than 9999.
Closest(hs, x, y) ==
    LET D(i) == DistSq(<<x, y>>, <<hs[i][1], hs[i][2]>>)
        near == {i \in 1..Len(hs) : D(i) < 9999 * 9999}
    IN  IF near = {} THEN None
        ELSE hs[CHOOSE i \in near :
                    /\ \A j \in near : D(i) <= D(j)
                    /\ \A j \in near : j < i => D(j) > D(i)]

\* closest and min_d <= 10
NearHandle(hs, x, y) ==
    /\ Closest(hs, x, y) # None
    /\ DistSq(<<x, y>>, <<Closest(hs, x, y)[1], Closest(hs, x, y)[2]>>) <= 10 * 10

\* _shape_center(shape)
ShapeCenter(s) ==
    CASE s.kind = "RectShape" -> Midpoint(s)
      [] s.kind = "EllipseShape" -> <<s.cx, s.cy>>
      [] s.kind = "CircleShape" -> s.center
      [] IsLine(s) -> Midpoint(s)
      [] s.kind = "QuadBezier" -> QuadCentroid(s)
      [] s.kind = "TextNode" -> <<0, 0>>
      \* an ArcShape has no p0: the source raises AttributeError here

\* _cursor_down(x, y)
CursorDown(x, y, hit) ==
    IF selected # None /\ NearHandle(Handles(obj[selected.shape]), x, y)
    THEN LET shape == obj[selected.shape]
             closest == Closest(Handles(shape), x, y)
         IN  /\ IF closest[3] = "rotate"
                THEN LET c == ShapeCenter(shape)
                     IN  /\ cursor_mode' = "rotate"
                         /\ rotate_center' = c
                         /\ rotate_base_angle' = Atan2Deg(y - c[2], x - c[1])
                         /\ UNCHANGED <<active_handle, drag_start>>
                ELSE IF closest[3] = "move"
                THEN /\ cursor_mode' = "move"
                     /\ drag_start' = <<x, y>>
                     /\ UNCHANGED <<active_handle, rotate_base_angle, rotate_center>>
                ELSE /\ cursor_mode' = "handle"
                     /\ active_handle' = closest[3]
                     /\ UNCHANGED <<drag_start, rotate_base_angle, rotate_center>>
             /\ trace' = Mark("other")
             /\ UNCHANGED <<selected, status>>
    ELSE LET shp == ShapeAt(hit)
         IN  IF shp # NoShape
             THEN /\ selected' = [shape |-> shp, handles |-> Handles(obj[shp])]
                  /\ cursor_mode' = "move"
                  /\ drag_start' = <<x, y>>
                  /\ status' = "Selected. Drag to move; drag round handle to rotate; press Del to delete selection."
                  /\ trace' = Mark("other")
                  /\ UNCHANGED <<active_handle, rotate_base_angle, rotate_center>>
             ELSE /\ selected' = None
                  /\ status' = "No shape under cursor. Select a tool to draw or click a shape to edit."
                  /\ trace' = Mark("other")
                  /\ UNCHANGED ctl

\* The shape on_click constructs from the staged clicks cl once a tool has all it needs.
Build(t, cl) ==
    CASE t = "line" -> LineSeg(cl[1], cl[2], StrokeWidth)
      [] t = "arrow" -> Arrow(cl[1], cl[2], StrokeWidth)
      [] t = "rect" -> RectShape(cl[1], cl[2], StrokeWidth, FillEnabled, 0)
      [] t = "ellipse" -> EllipseShape(cl[1], cl[2], StrokeWidth, FillEnabled, 0)
      [] t = "circle" ->
           CircleShape(cl[1], Max2(0, distance(cl[1], cl[2])), StrokeWidth, FillEnabled)
      [] t = "quad" -> QuadBezier(cl[1], cl[2], cl[3], StrokeWidth)
      [] t = "text" -> TextNode(cl[1])
      [] t = "dot" -> CircleShape(cl[1], StrokeWidth, 1, TRUE)
      [] t = "arc" ->
           ArcShape(cl[1], distance(cl[1], cl[2]), angle_between(cl[1], cl[2]),
                    angle_between(cl[1], cl[3]), StrokeWidth)

\* A faulty variant of ClicksNeeded: the two-click tools wait for a third click.
ClicksNeededThree(t) == 3

\* The number of staged clicks at which on_click commits a shape of tool t.
ClicksNeeded(t) ==
    CASE t \in {"line", "arrow", "rect", "ellipse", "circle"} -> 2
      [] t \in {"quad", "arc"} -> 3

\* The message _reset_temp gets once the shape is added; a circle's lacks the radius
\* it quotes, a text node's quotes the text __init__ sets.
AddedStatus(t) ==
    CASE t = "line" -> "Line added."
      [] t = "arrow" -> "Arrow added."
      [] t = "rect" -> "Rectangle added."
      [] t = "ellipse" -> "Ellipse added."
      [] t = "circle" -> "Circle added."
      [] t = "quad" -> "Quadratic Bezier added."
      [] t = "text" -> "Text node added: 'Hello'"
      [] t = "dot" -> "Dot added."
      [] t = "arc" -> "Arc added."

\* The status on_click sets when it only stages a click (cl the buffer with it),
\* without the point the first message quotes.
StageStatus(t, cl) ==
    IF t = "quad" /\ Len(cl) = 1 THEN "Quad: start set. Now click end."
    ELSE IF t = "quad" /\ Len(cl) = 2 THEN "Quad: end set. Move mouse to position control, then click to finish."
    ELSE status

\* on_click(event): <Button-1> at (ex, ey)
OnClick(ex, ey, hit) ==
    /\ Idle
    /\ ~button
    /\ button' = TRUE
    /\ LET p == snap(ex, ey, snap_enabled, GridStep)
       IN  IF tool = "cursor"
           THEN /\ CursorDown(p[1], p[2], hit)
                /\ UNCHANGED <<shapes, obj, next_id, actions, clicks, staged_by, run>>
           ELSE IF tool \in {"text", "dot"}
           THEN /\ AddShape(Build(tool, <<p>>))
                /\ clicks' = <<>>
                /\ staged_by' = <<>>
                /\ status' = AddedStatus(tool)
                /\ UNCHANGED ctl
           ELSE IF tool \in Tools
           THEN LET cl == Append(clicks, p)
                IN  /\ Len(clicks) < MaxClicks
                    /\ IF Len(cl) = ClicksNeeded(tool)
                       THEN /\ AddShape(Build(tool, cl))
                            /\ clicks' = <<>>
                            /\ staged_by' = <<>>
                            /\ status' = AddedStatus(tool)
                            /\ UNCHANGED ctl
                       ELSE /\ clicks' = cl
                            /\ staged_by' = Append(staged_by, tool)
                            /\ status' = StageStatus(tool, cl)
                            /\ trace' = Mark("other")
                            /\ UNCHANGED <<shapes, obj, next_id, actions, selected,
                                           ctl, run>>
           ELSE /\ trace' = Mark("other")
                /\ UNCHANGED <<shapes, obj, next_id, actions, clicks, staged_by, selected,
                               ctl, status, run>>
    /\ UNCHANGED <<tool, snap_enabled, pc, target_len>>

\* The centroid of a shape stays within the modelled canvas.
InCanvas(s) ==
    LET hs == Handles(s)
    IN  \A i \in 1..Len(hs) :
            hs[i][3] = "move" => Abs(hs[i][1]) <= MaxCoord /\ Abs(hs[i][2]) <= MaxCoord

\* A faulty variant of RotateFrame: the frame's turn is applied once.
RotateFrameOnce(s, d) == RotateBy(s, d)

\* The selected shape after one frame of a Rotate drag by d degrees.
RotateFrame(s, d) ==
    LET turned == IF HasAngle(s)
                  THEN RotateTo(s, IF s.kind \in {"RectShape", "EllipseShape"}
                                   THEN (AngleOf(s) + d) % 360 ELSE 0)
                  ELSE s
    IN  RotateBy(turned, d)

\* A faulty variant of OnDrag: a Move frame translates every shape of the Document.
OnDragMovingAll(ex, ey) ==
    /\ Idle
    /\ button
    /\ IF tool # "cursor" \/ selected = None
       THEN /\ trace' = Mark("drag") @@ [mode |-> "none"]
            /\ UNCHANGED <<obj, ctl>>
       ELSE LET p == snap(ex, ey, snap_enabled, GridStep)
                id == selected.shape
                shape == obj[id]
            IN  IF cursor_mode = "move"
                THEN LET dx == p[1] - drag_start[1]
                         dy == p[2] - drag_start[2]
                     IN  /\ InCanvas(MoveBy(shape, dx, dy))
                         /\ drag_start' = p
                         /\ obj' = [i \in DOMAIN obj |-> MoveBy(obj[i], dx, dy)]
                         /\ trace' = Mark("drag") @@ [mode |-> "move"]
                         /\ UNCHANGED <<cursor_mode, active_handle,
                                        rotate_base_angle, rotate_center>>
                ELSE IF cursor_mode = "handle" /\ active_handle # NoneS
                THEN /\ obj' = [obj EXCEPT ![id] = OnHandleDrag(shape, active_handle, p[1], p[2])]
                     /\ trace' = Mark("drag") @@ [mode |-> "handle"]
                     /\ UNCHANGED ctl
                ELSE IF cursor_mode = "rotate"
                THEN LET ang == Atan2Deg(p[2] - rotate_center[2], p[1] - rotate_center[1])
                         d == ang - rotate_base_angle
                     IN  /\ obj' = [obj EXCEPT ![id] = RotateFrame(shape, d)]
                         /\ rotate_base_angle' = ang
                         /\ trace' = Mark("drag") @@ [mode |-> "rotate"]
                         /\ UNCHANGED <<cursor_mode, active_handle, drag_start,
                                        rotate_center>>
                ELSE /\ trace' = Mark("drag") @@ [mode |-> "none"]
                     /\ UNCHANGED <<obj, ctl>>
    /\ UNCHANGED <<tool, snap_enabled, shapes, next_id, actions, clicks, staged_by, selected,
                   status, button, pc, target_len, run>>

\* on_drag(event): <B1-Motion> at (ex, ey)
OnDrag(ex, ey) ==
    /\ Idle
    /\ button
    /\ IF tool # "cursor" \/ selected = None
       THEN /\ trace' = Mark("drag") @@ [mode |-> "none"]
            /\ UNCHANGED <<obj, ctl>>
       ELSE LET p == snap(ex, ey, snap_enabled, GridStep)
                id == selected.shape
                shape == obj[id]
            IN  IF cursor_mode = "move"
                THEN LET dx == p[1] - drag_start[1]
                         dy == p[2] - drag_start[2]
                     IN  /\ InCanvas(MoveBy(shape, dx, dy))
                         /\ drag_start' = p
                         /\ obj' = [obj EXCEPT ![id] = MoveBy(shape, dx, dy)]
                         /\ trace' = Mark("drag") @@ [mode |-> "move"]
                         /\ UNCHANGED <<cursor_mode, active_handle,
                                        rotate_base_angle, rotate_center>>
                ELSE IF cursor_mode = "handle" /\ active_handle # NoneS
                THEN /\ obj' = [obj EXCEPT ![id] = OnHandleDrag(shape, active_handle, p[1], p[2])]
                     /\ trace' = Mark("drag") @@ [mode |-> "handle"]
                     /\ UNCHANGED ctl
                ELSE IF cursor_mode = "rotate"
                THEN LET ang == Atan2Deg(p[2] - rotate_center[2], p[1] - rotate_center[1])
                         d == ang - rotate_base_angle
                     IN  /\ obj' = [obj EXCEPT ![id] = RotateFrame(shape, d)]
                         /\ rotate_base_angle' = ang
                         /\ trace' = Mark("drag") @@ [mode |-> "rotate"]
                         /\ UNCHANGED <<cursor_mode, active_handle, drag_start,
                                        rotate_center>>
                ELSE /\ trace' = Mark("drag") @@ [mode |-> "none"]
                     /\ UNCHANGED <<obj, ctl>>
    /\ UNCHANGED <<tool, snap_enabled, shapes, next_id, actions, clicks, staged_by, selected,
                   status, button, pc, target_len, run>>

\* A faulty variant of OnRelease: the end of a drag is recorded in the History.
OnReleaseRecording ==
    /\ Idle
    /\ button
    /\ button' = FALSE
    /\ IF tool = "cursor"
       THEN /\ cursor_mode' = NoneS
            /\ active_handle' = NoneS
            /\ drag_start' = None
            /\ rotate_base_angle' = NoAngle
            /\ rotate_center' = None
            /\ actions' = IF selected = None THEN actions
                          ELSE Append(actions, [type |-> "modify", shape |-> selected.shape])
       ELSE UNCHANGED <<ctl, actions>>
    /\ trace' = Mark("release")
    /\ UNCHANGED <<tool, snap_enabled, shapes, obj, next_id, clicks, staged_by,
                   selected, status, pc, target_len, run>>

\* on_release(event): <ButtonRelease-1>
OnRelease ==
    /\ Idle
    /\ button
    /\ button' = FALSE
    /\ IF tool = "cursor"
       THEN /\ cursor_mode' = NoneS
            /\ active_handle' = NoneS
            /\ drag_start' = None
            /\ rotate_base_angle' = NoAngle
            /\ rotate_center' = None
       ELSE UNCHANGED ctl
    /\ trace' = Mark("release")
    /\ UNCHANGED <<tool, snap_enabled, shapes, obj, next_id, actions, clicks, staged_by,
                   selected, status, pc, target_len, run>>

(***************************************************************************)
(* Specifications                                                          *)
(***************************************************************************)

\* The answers the canvas may give to a hit test in the current state.
HitSets == IF tool = "cursor" THEN SUBSET Range(shapes) ELSE {{}}

\* The events of the program, the user's tools drawn from T and the pointer
\* positions from P.
NextOver(T, P) ==
    \/ \E t \in T : SetTool(t)
    \/ \E p \in P : \E hit \in HitSets : OnClick(p[1], p[2], hit)
    \/ \E p \in P : OnDrag(p[1], p[2])
    \/ OnRelease
    \/ CancelTemp
    \/ OnDeleteKey
    \/ Undo
    \/ \E confirm \in BOOLEAN : Clear(confirm)
    \/ \E k \in 0..Len(actions) : UndoToSelected(k)
    \/ UndoToStep
    \/ UndoToDone

\* Pointer positions and tools of the editing sessions explored: text nodes are
\* placed, selected, moved, deleted, cleared and restored.
Points == {<<0, 0>>, <<0, 40>>}
SessionTools == {"cursor", "text"}

Next == NextOver(SessionTools, Points)

Spec == Init /\ [][Next]_vars

\* Sessions of drawing and dragging lines.  Every drag mode occurs: an end point
\* is a handle, a click on the line's body starts a move, and a line drawn from
\* (0, 40) to (0, 40) has its rotate handle within reach of (0, 0).
DragPoints == {<<0, 0>>, <<0, 40>>}
DragTools == {"cursor", "line"}

DragNext ==
    \/ \E t \in DragTools : SetTool(t)
    \/ \E p \in DragPoints : \E hit \in HitSets : OnClick(p[1], p[2], hit)
    \/ \E p \in DragPoints : OnDrag(p[1], p[2])
    \/ OnRelease

DragSpec == Init /\ [][DragNext]_vars

RECURSIVE DeleteAll(_, _, _)
\* The Document and History left when, from shps and acts, each shape of gone is
\* selected and deleted, the oldest first.
DeleteAll(shps, acts, gone) ==
    IF gone = {} THEN [shapes |-> shps, actions |-> acts]
    ELSE LET s == CHOOSE x \in gone : \A y \in gone : x <= y
         IN  DeleteAll(Without(shps, s), Append(acts, RemoveAction(shps, s)),
                       gone \ {s})

\* The deletion routine of _on_delete_key taken on its own: MaxShapes text nodes
\* have been drawn, some have been deleted again, and the routine is given any of
\* the shape objects, also one that the Document holds no more.
RemoveInit ==
    /\ tool \in {"cursor", "text"}
    /\ snap_enabled = TRUE
    /\ \E gone \in SUBSET (1..MaxShapes) :
           LET d == DeleteAll([i \in 1..MaxShapes |-> i],
                              [i \in 1..MaxShapes |-> AddAction(i, i - 1)], gone)
           IN  shapes = d.shapes /\ actions = d.actions
    /\ obj \in {[i \in 1..MaxShapes |-> TextNode(pos[i])] : pos \in [1..MaxShapes -> Points]}
    /\ next_id = MaxShapes + 1
    /\ clicks = <<>>
    /\ staged_by = <<>>
    /\ selected \in {None} \cup {[shape |-> i, handles |-> Handles(obj[i])] : i \in 1..MaxShapes}
    /\ cursor_mode = NoneS
    /\ active_handle = NoneS
    /\ drag_start = None
    /\ rotate_base_angle = NoAngle
    /\ rotate_center = None
    /\ status = ToolStatus(tool)
    /\ button = FALSE
    /\ pc = "idle"
    /\ target_len = 0
    /\ trace = Mark("other")
    /\ run = Off

RemoveNext == OnDeleteKey

RemoveSpec == RemoveInit /\ [][RemoveNext]_vars

\* The drawing tools.
DrawingTools == Tools \ {"cursor"}

\* Sessions of drawing at one position in which the user changes the tool only
\* while nothing is staged: every tool is held until its shape is committed or
\* the pending shape is cancelled.
StagePoints == {<<0, 0>>}

StageNext ==
    \/ \E t \in DrawingTools : clicks = <<>> /\ SetTool(t)
    \/ \E p \in StagePoints : \E hit \in HitSets : OnClick(p[1], p[2], hit)
    \/ OnRelease
    \/ CancelTemp

StageSpec == Init /\ [][StageNext]_vars

\* Sessions of drawing at one position in which the user changes the tool at any
\* moment, also while clicks are staged.
SwitchNext ==
    \/ \E t \in DrawingTools : SetTool(t)
    \/ \E p \in StagePoints : \E hit \in HitSets : OnClick(p[1], p[2], hit)
    \/ OnRelease
    \/ CancelTemp

SwitchSpec == Init /\ [][SwitchNext]_vars

\* Sessions of selecting and grabbing: lines and text nodes are drawn at two
\* positions and the pointer is pressed and released on them.
GrabPoints == {<<0, 0>>, <<0, 40>>}
GrabTools == {"cursor", "line", "text"}

GrabNext ==
    \/ \E t \in GrabTools : SetTool(t)
    \/ \E p \in GrabPoints : \E hit \in HitSets : OnClick(p[1], p[2], hit)
    \/ OnRelease

GrabSpec == Init /\ [][GrabNext]_vars

\* Sessions of rotating: rectangles and ellipses are drawn, selected and dragged
\* with the pointer; the tool changes only between gestures and while nothing is
\* staged.
RotatePoints == {<<0, 0>>, <<0, 40>>}
RotateTools == {"cursor", "rect", "ellipse"}

RotateNext ==
    \/ \E t \in RotateTools : ~button /\ clicks = <<>> /\ SetTool(t)
    \/ \E p \in RotatePoints : \E hit \in HitSets : OnClick(p[1], p[2], hit)
    \/ \E p \in RotatePoints : OnDrag(p[1], p[2])
    \/ OnRelease

RotateSpec == Init /\ [][RotateNext]_vars

(***************************************************************************)
(* The shape methods taken on their own: one shape has been drawn with a   *)
(* drawing tool, as on_click constructs it, and its methods move_by,       *)
(* rotate_by, rotate_to and on_handle_drag are called on it directly, with *)
(* any arguments.  trace holds the last call, the fields the shape had     *)
(* before it, and the same for the call before.                            *)
(***************************************************************************)

\* The positions of the clicks that draw the shape.
ShapePoints == {<<0, 0>>, <<0, 40>>}
\* The arguments of rotate_by and rotate_to, in degrees.
Degrees == {-450, -400, -90, -30, 30, 90, 400, 450}
\* The arguments of move_by.
Offsets == {-7, 0, 7}
\* The handle kinds and the pointer positions on_handle_drag is called with.
HandleKinds == {"move", "rotate", "p0", "p1", "control", "radius", "start", "end"}
DragTargets == {<<0, 0>>, <<3, 4>>, <<-40, 40>>}

NoCall == [op |-> "none", args |-> <<>>, before |-> None]

ShapeInit ==
    /\ \E t \in DrawingTools :
           LET n == IF t \in {"text", "dot"} THEN 1 ELSE ClicksNeeded(t)
           IN  \E cl \in [1..n -> ShapePoints] :
                   /\ tool = t
                   /\ obj = <<Build(t, cl)>>
                   /\ status = AddedStatus(t)
    /\ snap_enabled = TRUE
    /\ shapes = <<1>>
    /\ next_id = 2
    /\ actions = <<AddAction(1, 0)>>
    /\ clicks = <<>>
    /\ staged_by = <<>>
    /\ selected = [shape |-> 1, handles |-> Handles(obj[1])]
    /\ cursor_mode = NoneS
    /\ active_handle = NoneS
    /\ drag_start = None
    /\ rotate_base_angle = NoAngle
    /\ rotate_center = None
    /\ button = FALSE
    /\ pc = "idle"
    /\ target_len = 0
    /\ trace = [op |-> "new", args |-> <<>>, before |-> None, calls |-> 0, prev |-> NoCall]
    /\ run = Off

\* trace after the call op(args) on the shape.
Called(op, args) ==
    [op |-> op, args |-> args, before |-> obj[1], calls |-> trace.calls + 1,
     prev |-> [op |-> trace.op, args |-> trace.args, before |-> trace.before]]

\* A method call changes the fields of the shape object only.
CallOn(after, op, args) ==
    /\ obj' = [obj EXCEPT ![1] = after]
    /\ trace' = Called(op, args)
    /\ UNCHANGED <<tool, snap_enabled, shapes, next_id, actions, clicks, staged_by,
                   selected, ctl, status, button, pc, target_len, run>>

CallMoveBy(dx, dy) == CallOn(MoveBy(obj[1], dx, dy), "move_by", <<dx, dy>>)
CallRotateBy(d) == CallOn(RotateBy(obj[1], d), "rotate_by", <<d>>)
CallRotateTo(t) == CallOn(RotateTo(obj[1], t), "rotate_to", <<t>>)
CallOnHandleDrag(kind, x, y) ==
    CallOn(OnHandleDrag(obj[1], kind, x, y), "on_handle_drag", <<kind, x, y>>)

ShapeNext ==
    \/ \E dx \in Offsets : \E dy \in Offsets :
           trace.calls < MaxCalls /\ CallMoveBy(dx, dy)
    \/ \E d \in Degrees : trace.calls < MaxCalls /\ CallRotateBy(d)
    \/ \E t \in Degrees : trace.calls < MaxCalls /\ CallRotateTo(t)
    \/ \E kind \in HandleKinds : \E p \in DragTargets :
           trace.calls < MaxCalls /\ CallOnHandleDrag(kind, p[1], p[2])

ShapeSpec == ShapeInit /\ [][ShapeNext]_vars

\* The rotations alone, one call more.
TurnNext ==
    \/ \E d \in Degrees : trace.calls < MaxTurns /\ CallRotateBy(d)
    \/ \E t \in Degrees : trace.calls < MaxTurns /\ CallRotateTo(t)

TurnSpec == ShapeInit /\ [][TurnNext]_vars

(***************************************************************************)
(* snap taken on its own: it may be called with any coordinates, either    *)
(* setting and any grid step.  The arguments are drawn at the start and    *)
(* kept in trace; the call puts the result beside them.                    *)
(***************************************************************************)

SnapCoords == -12..27
SnapSteps == {1, 2, 5, 10, 20}

SnapInit ==
    /\ \E x \in SnapCoords : \E y \in SnapCoords : \E enabled \in BOOLEAN :
           \E step \in SnapSteps :
               /\ trace = [op |-> "args", args |-> <<x, y, enabled, step>>,
                           result |-> None]
               /\ snap_enabled = enabled
    /\ tool = "cursor"
    /\ shapes = <<>>
    /\ obj = <<>>
    /\ next_id = 1
    /\ actions = <<>>
    /\ clicks = <<>>
    /\ staged_by = <<>>
    /\ selected = None
    /\ cursor_mode = NoneS
    /\ active_handle = NoneS
    /\ drag_start = None
    /\ rotate_base_angle = NoAngle
    /\ rotate_center = None
    /\ status = "Cursor: click a shape to select, drag to move. Use the round handle to rotate."
    /\ button = FALSE
    /\ pc = "idle"
    /\ target_len = 0
    /\ run = Off

CallSnap ==
    /\ trace.op = "args"
    /\ trace' = [trace EXCEPT !.op = "snap",
                               !.result = snap(trace.args[1], trace.args[2],
                                               trace.args[3], trace.args[4])]
    /\ UNCHANGED <<tool, snap_enabled, shapes, obj, next_id, actions, clicks,
                   staged_by, selected, ctl, status, button, pc, target_len, run>>

SnapNext == CallSnap

SnapSpec == SnapInit /\ [][SnapNext]_vars

(***************************************************************************)
(* The export                                                              *)
(***************************************************************************)

Preamble == "\\begin{tikzpicture}[x=1pt,y=-1pt]"
Postamble == "\\end{tikzpicture}"

\* A faulty variant of tikz_code: the shapes are exported topmost first.
tikz_codeTopmostFirst ==
    <<[indent |-> 0, text |-> Preamble]>>
    \o [i \in 1..Len(shapes) |->
            [indent |-> 2, text |-> ToTikz(obj[shapes[Len(shapes) + 1 - i]])]]
    \o <<[indent |-> 0, text |-> Postamble]>>

\* tikz_code(): the lines of the export text, each with its indentation.
tikz_code ==
    <<[indent |-> 0, text |-> Preamble]>>
    \o [i \in 1..Len(shapes) |-> [indent |-> 2, text |-> ToTikz(obj[shapes[i]])]]
    \o <<[indent |-> 0, text |-> Postamble]>>

(***************************************************************************)
(* A rectangle taken on its own: RectShape(p0, p1) with the corners at any *)
(* two of a few points, then turned by rotate_by and rotate_to.            *)
(***************************************************************************)

RectCorners == {<<0, 0>>, <<10, 10>>, <<0, 40>>, <<-20, 10>>}

RectInit ==
    /\ \E p0 \in RectCorners : \E p1 \in RectCorners :
           obj = <<Build("rect", <<p0, p1>>)>>
    /\ tool = "rect"
    /\ status = AddedStatus("rect")
    /\ snap_enabled = TRUE
    /\ shapes = <<1>>
    /\ next_id = 2
    /\ actions = <<AddAction(1, 0)>>
    /\ clicks = <<>>
    /\ staged_by = <<>>
    /\ selected = [shape |-> 1, handles |-> Handles(obj[1])]
    /\ cursor_mode = NoneS
    /\ active_handle = NoneS
    /\ drag_start = None
    /\ rotate_base_angle = NoAngle
    /\ rotate_center = None
    /\ button = FALSE
    /\ pc = "idle"
    /\ target_len = 0
    /\ trace = [op |-> "new", args |-> <<>>, before |-> None, calls |-> 0, prev |-> NoCall]
    /\ run = Off

RectSpec == RectInit /\ [][TurnNext]_vars

(***************************************************************************)
(* Text nodes placed and dragged: the pointer events and the tool changes, *)
(* which the keyboard allows at any time.                                  *)
(***************************************************************************)

MovePoints == {<<0, 0>>, <<0, 40>>}
MoveTools == {"cursor", "text"}

MoveNext ==
    \/ \E t \in MoveTools : SetTool(t)
    \/ \E p \in MovePoints : \E hit \in HitSets : OnClick(p[1], p[2], hit)
    \/ \E p \in MovePoints : OnDrag(p[1], p[2])
    \/ OnRelease

MoveSpec == Init /\ [][MoveNext]_vars

(***************************************************************************)
(* The editing sessions with the loop of undo_to_selected run to its end:  *)
(* the loop is one call of a handler, which the event loop does not        *)
(* suspend, so a turn or the exit that is possible is taken.               *)
(***************************************************************************)

LoopSpec == Spec /\ WF_vars(UndoToStep) /\ WF_vars(UndoToDone)

(***************************************************************************)
(* Arcs with the type of each number.  ArcShape.draw asserts that the      *)
(* centre coordinates are of type int and the radius of type float, so     *)
(* here a number is a record of its value and its Python type, and the     *)
(* arithmetic gives the type Python gives: the arc tool, the cursor tool's *)
(* press on an arc and the Move and Handle frames are taken again in these *)
(* terms, for one arc.                                                     *)
(***************************************************************************)

IntNum(n) == [v |-> n, t |-> "int"]
FloatNum(n) == [v |-> n, t |-> "float"]

\* The type of a + b, a - b and a * b.
NumType(a, b) == IF a.t = "int" /\ b.t = "int" THEN "int" ELSE "float"
NumAdd(a, b) == [v |-> a.v + b.v, t |-> NumType(a, b)]
NumSub(a, b) == [v |-> a.v - b.v, t |-> NumType(a, b)]
NumMul(a, b) == [v |-> a.v * b.v, t |-> NumType(a, b)]

\* A faulty variant of PyRound: round gives a float, as round(x, 0) does.
PyRoundToFloat(x, step) == FloatNum(RoundHalfEven(x.v, step.v))

\* round(x / step): with one argument round returns an int.
PyRound(x, step) == IntNum(RoundHalfEven(x.v, step.v))

\* snap(x, y, enabled, step) on typed numbers.
SnapNum(x, y, enabled, step) ==
    IF ~enabled THEN <<x, y>>
    ELSE <<NumMul(PyRound(x, step), step), NumMul(PyRound(y, step), step)>>

\* The pair of values of a typed point.
Values(p) == <<p[1].v, p[2].v>>

\* distance(p, q) and angle_between(p, q): math.hypot and math.degrees return floats.
HypotNum(p, q) == FloatNum(distance(Values(p), Values(q)))
AngleNum(p, q) == FloatNum(angle_between(Values(p), Values(q)))

\* ArcShape(center, radius, start_angle, end_angle) of typed numbers.
ArcNum(center, radius, start_angle, end_angle) ==
    [kind |-> "ArcShape", center |-> center, radius |-> radius,
     start_angle |-> start_angle, end_angle |-> end_angle]

\* The arc with the values alone.
Untyped(s) ==
    ArcShape(Values(s.center), s.radius.v, s.start_angle.v, s.end_angle.v,
             StrokeWidth)

\* The three assert statements of ArcShape.draw.
DrawChecks(s) ==
    /\ s.center[1].t = "int"
    /\ s.center[2].t = "int"
    /\ s.radius.t = "float"

\* ArcShape.move_by(dx, dy)
ArcMoveBy(s, dx, dy) ==
    [s EXCEPT !.center = <<NumAdd(s.center[1], dx), NumAdd(s.center[2], dy)>>]

\* ArcShape.on_handle_drag(kind, x, y)
ArcOnHandleDrag(s, kind, x, y) ==
    LET angle == FloatNum(Atan2Deg(y.v - s.center[2].v, x.v - s.center[1].v) % 360)
    IN  IF kind = "move" THEN [s EXCEPT !.center = <<x, y>>]
        ELSE IF kind = "start" THEN [s EXCEPT !.start_angle = angle]
        ELSE IF kind = "end" THEN [s EXCEPT !.end_angle = angle]
        ELSE s

\* _on_snap_change: the "Snap to grid" check box
SetSnap(enabled) ==
    /\ Idle
    /\ snap_enabled' = enabled
    /\ status' = IF enabled THEN "Snap enabled (step=20 px)." ELSE "Snap disabled."
    /\ trace' = Mark("other")
    /\ UNCHANGED <<tool, shapes, obj, next_id, actions, clicks, staged_by, selected,
                   ctl, button, pc, target_len, run>>

\* _cursor_down(x, y) with an arc or nothing in the Document; hit tells whether
\* the canvas finds the arc under the pointer.
ArcCursorDown(p, hit) ==
    IF selected # None
          /\ NearHandle(Handles(Untyped(obj[selected.shape])), p[1].v, p[2].v)
    THEN LET closest == Closest(Handles(Untyped(obj[selected.shape])), p[1].v, p[2].v)
         IN  /\ IF closest[3] = "move"
                THEN /\ cursor_mode' = "move"
                     /\ drag_start' = p
                     /\ UNCHANGED <<active_handle, rotate_base_angle, rotate_center>>
                ELSE /\ cursor_mode' = "handle"
                     /\ active_handle' = closest[3]
                     /\ UNCHANGED <<drag_start, rotate_base_angle, rotate_center>>
             /\ UNCHANGED <<selected, status>>
    ELSE IF hit
    THEN /\ selected' = [shape |-> shapes[1], handles |-> Handles(Untyped(obj[shapes[1]]))]
         /\ cursor_mode' = "move"
         /\ drag_start' = p
         /\ status' = "Selected. Drag to move; drag round handle to rotate; press Del to delete selection."
         /\ UNCHANGED <<active_handle, rotate_base_angle, rotate_center>>
    ELSE /\ selected' = None
         /\ status' = "No shape under cursor. Select a tool to draw or click a shape to edit."
         /\ UNCHANGED ctl

\* on_click(event) with the cursor tool or the arc tool; one arc is drawn.
ArcClick(ex, ey, hit) ==
    /\ Idle
    /\ ~button
    /\ button' = TRUE
    /\ tool \in {"cursor", "arc"}
    /\ LET p == SnapNum(IntNum(ex), IntNum(ey), snap_enabled, IntNum(GridStep))
       IN  IF tool = "cursor"
           THEN /\ ArcCursorDown(p, hit)
                /\ trace' = Mark("other")
                /\ UNCHANGED <<shapes, obj, next_id, actions, clicks, staged_by, run>>
           ELSE LET cl == Append(clicks, p)
                IN  /\ shapes = <<>>
                    /\ next_id = 1
                    /\ IF Len(cl) = 3
                       THEN LET rec == ArcNum(cl[1], HypotNum(cl[1], cl[2]),
                                              AngleNum(cl[1], cl[2]),
                                              AngleNum(cl[1], cl[3]))
                                act == AddAction(next_id, 0)
                            IN  /\ shapes' = <<next_id>>
                                /\ obj' = (next_id :> rec) @@ obj
                                /\ next_id' = next_id + 1
                                /\ actions' = Append(actions, act)
                                /\ selected' = [shape |-> next_id,
                                                handles |-> Handles(Untyped(rec))]
                                /\ trace' = Mark("add") @@ [shape |-> next_id]
                                /\ run' = RunAfterAdd(act)
                                /\ clicks' = <<>>
                                /\ staged_by' = <<>>
                                /\ status' = AddedStatus(tool)
                                /\ UNCHANGED ctl
                       ELSE /\ clicks' = cl
                            /\ staged_by' = Append(staged_by, tool)
                            /\ status' = StageStatus(tool, cl)
                            /\ trace' = Mark("other")
                            /\ UNCHANGED <<shapes, obj, next_id, actions, selected,
                                           ctl, run>>
    /\ UNCHANGED <<tool, snap_enabled, pc, target_len>>

\* on_drag(event) with an arc selected.
ArcDrag(ex, ey) ==
    /\ Idle
    /\ button
    /\ IF tool # "cursor" \/ selected = None
       THEN /\ trace' = Mark("drag") @@ [mode |-> "none"]
            /\ UNCHANGED <<obj, ctl>>
       ELSE LET p == SnapNum(IntNum(ex), IntNum(ey), snap_enabled, IntNum(GridStep))
                id == selected.shape
                shape == obj[id]
            IN  IF cursor_mode = "move"
                THEN LET dx == NumSub(p[1], drag_start[1])
                         dy == NumSub(p[2], drag_start[2])
                     IN  /\ InCanvas(Untyped(ArcMoveBy(shape, dx, dy)))
                         /\ drag_start' = p
                         /\ obj' = [obj EXCEPT ![id] = ArcMoveBy(shape, dx, dy)]
                         /\ trace' = Mark("drag") @@ [mode |-> "move"]
                         /\ UNCHANGED <<cursor_mode, active_handle,
                                        rotate_base_angle, rotate_center>>
                ELSE IF cursor_mode = "handle" /\ active_handle # NoneS
                THEN /\ obj' = [obj EXCEPT ![id] =
                                    ArcOnHandleDrag(shape, active_handle, p[1], p[2])]
                     /\ trace' = Mark("drag") @@ [mode |-> "handle"]
                     /\ UNCHANGED ctl
                ELSE /\ trace' = Mark("drag") @@ [mode |-> "none"]
                     /\ UNCHANGED <<obj, ctl>>
    /\ UNCHANGED <<tool, snap_enabled, shapes, next_id, actions, clicks, staged_by, selected,
                   status, button, pc, target_len, run>>

\* Pointer positions off and on the grid, before snapping.
ArcPoints == {<<0, 0>>, <<3, 4>>}
ArcTools == {"cursor", "arc"}

\* Whether the canvas may find the arc under the pointer.
ArcHits == IF tool = "cursor" /\ shapes # <<>> THEN BOOLEAN ELSE {FALSE}

ArcNext ==
    \/ \E t \in ArcTools : ~button /\ SetTool(t)
    \/ \E enabled \in BOOLEAN : ~button /\ SetSnap(enabled)
    \/ \E p \in ArcPoints : \E hit \in ArcHits : ArcClick(p[1], p[2], hit)
    \/ \E p \in ArcPoints : ArcDrag(p[1], p[2])
    \/ OnRelease

ArcSpec == Init /\ [][ArcNext]_vars

(***************************************************************************)
(* Properties of the Document and the History                              *)
(***************************************************************************)

\* C1: whenever undo() is called right after _add_shape, the Document is the
\* sequence it was before the add (same shapes, same order, same length) and the
\* History is the History before the add.
AddThenUndoRestores ==
    (trace.op = "undo" /\ trace.after = "add") =>
        /\ shapes = trace.before.shapes
        /\ actions = trace.before.actions

\* An add into a non-empty Document has just been undone.
AddThenUndoReached ==
    /\ trace.op = "undo" /\ trace.after = "add"
    /\ trace.before.shapes # <<>>
    /\ Len(trace.shapes) = Len(trace.before.shapes) + 1

\* C2: whenever undo() is called right after the selected shape was deleted, the
\* Document is the sequence it was before the deletion, the shape back at the
\* index it had.
DeleteThenUndoRestores ==
    (trace.op = "undo" /\ trace.after = "remove") =>
        LET shp == Last(trace.actions).shape
        IN  /\ shapes = trace.before.shapes
            /\ IndexOf(shapes, shp) = IndexOf(trace.before.shapes, shp)
            /\ IndexOf(shapes, shp) # NoIndex

\* The first of two shapes was deleted and the deletion has just been undone.
DeleteThenUndoReached ==
    /\ trace.op = "undo" /\ trace.after = "remove"
    /\ Len(trace.before.shapes) = 2
    /\ trace.before.shapes[1] = Last(trace.actions).shape
    /\ Len(trace.shapes) = 1

\* C3: whenever undo() is called right after a confirmed clear() of a non-empty
\* Document, the Document is the sequence it was before the clear: the same shape
\* identities in the same order.
ClearThenUndoRestores ==
    (trace.op = "undo" /\ trace.after = "clear") =>
        shapes = trace.before.shapes

\* A Document of two shapes was cleared and the clear has just been undone.
ClearThenUndoReached ==
    /\ trace.op = "undo" /\ trace.after = "clear"
    /\ Len(trace.before.shapes) = 2
    /\ trace.shapes = <<>>

\* C4: when undo_to_selected has finished for list entry k on a History of length
\* n, then if k+1 < n the History is the first k+1 Actions of the History it
\* started with, and if k+1 >= n neither the History nor the Document has changed.
UndoToKeepsPrefix ==
    (trace.op = "undoTo" /\ trace.done) =>
        IF trace.k + 1 < Len(trace.actions)
        THEN actions = SubSeq(trace.actions, 1, trace.k + 1)
        ELSE actions = trace.actions /\ shapes = trace.shapes

\* undo_to_selected has finished after undoing at least two Actions down to a
\* non-empty History.
UndoToReached ==
    /\ trace.op = "undoTo" /\ trace.done
    /\ trace.calls >= 2
    /\ trace.k + 1 < Len(trace.actions)
    /\ actions # <<>>

\* One step of the History: it is left alone, or one add, remove or clear Action
\* made from the current Document and Selection is appended, or its last Action
\* is removed.
HistoryStep ==
    \/ actions' = actions
    \/ /\ Len(actions') = Len(actions) + 1
       /\ actions' = Append(actions, Last(actions'))
       /\ LET a == Last(actions')
          IN  \/ a = [type |-> "add", shape |-> next_id, index |-> Len(shapes)]
              \/ /\ selected # None
                 /\ a = [type |-> "remove", shape |-> selected.shape,
                         index |-> IndexOf(shapes, selected.shape)]
              \/ /\ shapes # <<>>
                 /\ a = [type |-> "clear", shapes |-> shapes]
    \/ /\ actions # <<>>
       /\ actions' = Front(actions)

\* C5: every step leaves the History unchanged, appends exactly one add, remove
\* or clear Action at its tail, or removes exactly its last Action; the entries
\* before the tail are never modified or reordered, and an appended Action is a
\* new one (an add names a shape object no Action has named before), never one
\* that undo discarded.
HistoryAppendOrPop == [][HistoryStep]_vars

\* An add was undone and discarded, and a remove was appended after it.
HistoryAppendOrPopReached ==
    /\ Len(actions) = 2
    /\ actions[2].type = "remove"
    /\ next_id = 3

\* C6: after undo() is called with an empty History, the Document and the History
\* are unchanged and the status is "Nothing to undo.".
UndoOfEmptyHistory ==
    (trace.op = "undo" /\ trace.actions = <<>>) =>
        /\ shapes = trace.shapes
        /\ actions = trace.actions
        /\ status = "Nothing to undo."

\* undo() has just been called with an empty History, after shapes were drawn.
UndoOfEmptyHistoryReached ==
    /\ trace.op = "undo" /\ trace.actions = <<>>
    /\ next_id > 1

\* C7: after every call of undo(), from the Undo command or from undo_to_selected,
\* whatever the History held, the Selection is empty.
UndoClearsSelection ==
    (trace.op = "undo" \/ (trace.op = "undoTo" /\ trace.calls > 0)) =>
        selected = None

\* undo() has just been called while a shape was selected.
UndoClearsSelectionReached ==
    /\ trace.op = "undo"
    /\ trace.selected # None
    /\ selected = None

\* C8: while a scenario runs - from an empty Document n shapes were added and then
\* undo() was called j <= n times - the Document is the first n-j added shapes in
\* insertion order and the History is the scenario's first n-j Actions after the
\* History it started with.
UndosRevertInReverseOrder ==
    run.on =>
        LET m == Len(run.adds) - run.undos
        IN  /\ m >= 0
            /\ shapes = [i \in 1..m |-> run.adds[i].shape]
            /\ actions = run.base \o SubSeq(run.adds, 1, m)

\* Two shapes were added and one undo was made.
UndosRevertReached ==
    /\ run.on
    /\ Len(run.adds) = 2
    /\ run.undos = 1
    /\ Len(shapes) = 1

\* C9: after a pointer drag or release, in move, rotate and handle mode alike, the
\* History is the one the handler started with and so is the Document's sequence
\* of shapes (membership and order).
DragKeepsDocumentAndHistory ==
    trace.op \in {"drag", "release"} =>
        /\ shapes = trace.shapes
        /\ actions = trace.actions

\* A handle of the second of two shapes has just been dragged.
DragReached ==
    /\ trace.op = "drag"
    /\ trace.mode = "handle"
    /\ Len(shapes) = 2
    /\ selected # None
    /\ selected.shape = shapes[2]
    /\ selected.handles # Handles(obj[selected.shape])

\* C10: after _add_shape(s), s is the last element of the Document, which is the
\* Document before with s appended; the History is the History before with one
\* add Action appended, whose shape is s and whose index is the Document's length
\* before the append, the index s sits at; and s is the Selection.
AddShapePostcondition ==
    trace.op = "add" =>
        /\ shapes = Append(trace.shapes, trace.shape)
        /\ Last(shapes) = trace.shape
        /\ actions = Append(trace.actions,
                            [type |-> "add", shape |-> trace.shape,
                             index |-> Len(trace.shapes)])
        /\ shapes[Last(actions).index + 1] = trace.shape
        /\ selected # None
        /\ selected.shape = trace.shape

\* A shape has just been added to a non-empty Document.
AddShapeReached ==
    /\ trace.op = "add"
    /\ trace.shapes # <<>>

\* The Selection is a shape of the Document: the events of the program never lead
\* to a deletion of a shape the Document does not hold.
SelectionInDocument ==
    selected # None => selected.shape \in Range(shapes)

ClearStep(c) ==
    IF shapes # <<>> /\ c
    THEN /\ actions' = Append(actions, [type |-> "clear", shapes |-> shapes])
         /\ shapes' = <<>>
         /\ selected' = None
    ELSE UNCHANGED <<shapes, actions, selected>>

\* C12: every call of clear() on a non-empty Document that is confirmed appends
\* exactly one clear Action holding the full current sequence, empties the
\* Document and clears the Selection; every call on an empty Document, or one
\* that is declined, leaves Document, History and Selection unchanged; and no
\* clear Action of the History ever holds an empty snapshot.
ClearContract ==
    /\ [][\A c \in BOOLEAN : Clear(c) => ClearStep(c)]_vars
    /\ [](\A i \in 1..Len(actions) :
              actions[i].type = "clear" => actions[i].shapes # <<>>)

\* A Document of two shapes, one of them selected, has just been cleared.
ClearContractReached ==
    /\ trace.op = "clear"
    /\ Len(trace.shapes) = 2
    /\ shapes = <<>>
    /\ Last(actions) = [type |-> "clear", shapes |-> trace.shapes]

\* C13: a delete key event with a tool other than "cursor" active, or with no
\* Selection, leaves the Document, the History and the Selection unchanged:
\* deletion changes any of them only with tool = "cursor" and a Selection.
DeleteOnlyWithCursorAndSelection ==
    [][OnDeleteKey =>
          \/ tool = "cursor" /\ selected # None
          \/ UNCHANGED <<shapes, actions, selected>>]_vars

\* The delete key has just been pressed with the cursor tool, a non-empty Document
\* and no Selection.
DeleteIgnoredReached ==
    /\ status = "No shape currently selected to delete."
    /\ tool = "cursor"
    /\ selected = None
    /\ shapes # <<>>
    /\ trace.op = "other"
    /\ trace.shapes = shapes

\* The number N of clicks a drawing tool takes to commit its shape.
Arity(t) ==
    CASE t \in {"text", "dot"} -> 1
      [] t \in {"line", "arrow", "rect", "ellipse", "circle"} -> 2
      [] t \in {"quad", "arc"} -> 3

\* One click of a drawing tool: the click that makes the staged clicks N adds one
\* shape and one add Action for it and empties the buffer, any other adds nothing
\* and is staged.
ClickStagesOrCommits ==
    LET n == Arity(tool)
        m == Len(clicks)
    IN  IF m + 1 = n
        THEN /\ Len(shapes') = Len(shapes) + 1
             /\ Front(shapes') = shapes
             /\ Len(actions') = Len(actions) + 1
             /\ Front(actions') = actions
             /\ Last(actions').type = "add"
             /\ Last(actions').shape = Last(shapes')
             /\ clicks' = <<>>
        ELSE /\ shapes' = shapes
             /\ actions' = actions
             /\ Len(clicks') = m + 1

\* C14: with the tool held fixed from an empty staging buffer, a drawing tool
\* commits its shape on exactly its Nth click (N = 2 for line, arrow, rect,
\* ellipse, circle; 3 for quad, arc; 1 for text, dot): fewer than N clicks are
\* staged between events, the first N-1 clicks add nothing to the Document or the
\* History, the Nth click adds exactly one shape and one add Action, and the
\* buffer is empty afterwards.
CommitOnNthClick ==
    /\ [](tool \in DrawingTools => Len(clicks) < Arity(tool))
    /\ [][\A p \in StagePoints : \A hit \in HitSets :
              (tool \in DrawingTools /\ OnClick(p[1], p[2], hit))
                  => ClickStagesOrCommits]_vars

\* A quad has just been committed by its third click.
CommitOnNthClickReached ==
    /\ trace.op = "add"
    /\ obj[trace.shape].kind = "QuadBezier"
    /\ tool = "quad"
    /\ clicks = <<>>
    /\ Len(shapes) = 2

\* C15: tools stage their clicks independently: across any interleaving of clicks
\* and tool changes, between events the staging buffer holds fewer clicks than the
\* active drawing tool needs, and every committed shape is built only from clicks
\* made while its own tool was active.
ToolsStageIndependently ==
    /\ [](tool \in DrawingTools => Len(clicks) < Arity(tool))
    /\ [][(Len(actions') = Len(actions) + 1 /\ Last(actions').type = "add")
              => \A i \in 1..Len(staged_by) : staged_by[i] = tool]_vars


\* C16: Escape empties the staging buffer and leaves the Document, the History
\* and the Selection unchanged, whatever number of clicks was staged.
EscapeOnlyEmptiesStaging ==
    [][CancelTemp =>
          /\ clicks' = <<>>
          /\ UNCHANGED <<shapes, actions, selected>>]_vars

\* Escape has discarded the two staged clicks of a quad while a shape is selected.
EscapeOnlyEmptiesStagingReached ==
    /\ tool = "quad"
    /\ status = "Quad: end set. Move mouse to position control, then click to finish."
    /\ clicks = <<>>
    /\ shapes # <<>>
    /\ selected # None


\* The handles of the selected shape nearest to q, when they are within 10 of it.
NearestHandles(q) ==
    LET hs == Handles(obj[selected.shape])
        D(i) == DistSq(q, <<hs[i][1], hs[i][2]>>)
    IN  {hs[i] : i \in {j \in 1..Len(hs) : /\ D(j) <= 10 * 10
                                           /\ \A k \in 1..Len(hs) : D(j) <= D(k)}}

\* The drag mode a pointer-down on handle h enters.
EntersModeOf(h) ==
    CASE h[3] = "move" -> cursor_mode' = "move"
      [] h[3] = "rotate" -> cursor_mode' = "rotate"
      [] OTHER -> cursor_mode' = "handle" /\ active_handle' = h[3]

\* C17: with the cursor tool and a Selection, a pointer-down within 10 of the
\* nearest handle of the selected shape enters Move mode if that handle's kind is
\* "move", Rotate mode if it is "rotate", and Handle mode with that kind as the
\* active handle otherwise; it never changes the Selection, even when a different
\* shape lies under the pointer.
HandleGrabKeepsSelection ==
    [][\A p \in GrabPoints : \A hit \in HitSets :
          LET q == snap(p[1], p[2], snap_enabled, GridStep)
          IN  (/\ ~button /\ button'
               /\ tool = "cursor"
               /\ selected # None
               /\ NearestHandles(q) # {}
               /\ OnClick(p[1], p[2], hit))
                  => /\ selected' = selected
                     /\ \E h \in NearestHandles(q) : EntersModeOf(h)]_vars

\* An end point of the selected line has been grabbed while another shape is in
\* the Document.
HandleGrabKeepsSelectionReached ==
    /\ tool = "cursor"
    /\ button
    /\ cursor_mode = "handle"
    /\ active_handle \in {"p0", "p1"}
    /\ selected # None
    /\ Len(shapes) = 2


\* C18: with the cursor tool and no handle of a Selection within 10 of the
\* pointer, a pointer-down selects the topmost shape under the pointer (the latest
\* in Document order among those hit) and enters Move mode; if no shape is hit the
\* Selection is cleared.
ClickSelectsTopmost ==
    [][\A p \in GrabPoints : \A hit \in HitSets :
          LET q == snap(p[1], p[2], snap_enabled, GridStep)
              under == {i \in 1..Len(shapes) : shapes[i] \in hit}
          IN  (/\ ~button /\ button'
               /\ tool = "cursor"
               /\ (selected = None \/ NearestHandles(q) = {})
               /\ OnClick(p[1], p[2], hit))
                  => IF under # {}
                     THEN /\ selected' # None
                          /\ \E i \in under : /\ selected'.shape = shapes[i]
                                              /\ \A j \in under : j <= i
                          /\ cursor_mode' = "move"
                     ELSE selected' = None]_vars

\* The upper of two shapes has been selected by a click.
ClickSelectsTopmostReached ==
    /\ status = "Selected. Drag to move; drag round handle to rotate; press Del to delete selection."
    /\ button
    /\ cursor_mode = "move"
    /\ Len(shapes) = 2
    /\ selected # None
    /\ selected.shape = shapes[2]
    /\ trace.op = "other"


\* C19: after any pointer release, whatever drag mode was active, the controller
\* is Idle: cursor mode, active handle, drag start, rotation pivot and rotation
\* base angle are all cleared, and the Selection is unchanged.
ReleaseReturnsToIdle ==
    [][OnRelease =>
          /\ cursor_mode' = NoneS
          /\ active_handle' = NoneS
          /\ drag_start' = None
          /\ rotate_center' = None
          /\ rotate_base_angle' = NoAngle
          /\ selected' = selected]_vars


InTurn(a) == 0 <= a /\ a < 360

RotateByThenBackRestores ==
    (/\ trace.op = "rotate_by"
     /\ trace.prev.op = "rotate_by"
     /\ trace.args[1] = -trace.prev.args[1]
     /\ obj[1].kind \in {"RectShape", "EllipseShape", "ArcShape"})
        => obj[1] = trace.prev.before


\* C23: rotate_to is idempotent for every variant: from any shape state and for
\* any target t, a second rotate_to(t) leaves the state the first one left (the
\* same angle of a Rect or Ellipse, the same start and end angle of an Arc, the
\* other variants unchanged by either call).
RotateToIsIdempotent ==
    /\ (/\ trace.op = "rotate_to"
        /\ trace.prev.op = "rotate_to"
        /\ trace.args = trace.prev.args)
           => obj[1] = trace.before
    /\ (/\ trace.op = "rotate_to"
        /\ obj[1].kind \notin {"RectShape", "EllipseShape", "ArcShape"})
           => obj[1] = trace.before

\* An arc drawn with start angle -90 and end angle 0 has twice been turned to the
\* target -30, which changed both of its angles the first time.
RotateToIsIdempotentReached ==
    /\ trace.op = "rotate_to"
    /\ trace.prev.op = "rotate_to"
    /\ trace.args = <<-30>>
    /\ trace.prev.args = <<-30>>
    /\ obj[1].kind = "ArcShape"
    /\ trace.prev.before.start_angle = -90
    /\ trace.prev.before.end_angle = 0
    /\ obj[1].start_angle = 330
    /\ obj[1].end_angle = 60


\* (end_angle - start_angle) mod 360 of an arc.
Span(s) == (s.end_angle - s.start_angle) % 360

\* C24: the angular span of an Arc, (end_angle - start_angle) mod 360, is the same
\* before and after every rotate_by(d) and every rotate_to(t), for all d and t;
\* rotate_to(t) also leaves start_angle equal to t mod 360.
ArcSpanIsPreserved ==
    (obj[1].kind = "ArcShape" /\ trace.op \in {"rotate_by", "rotate_to"}) =>
        /\ Span(obj[1]) = Span(trace.before)
        /\ trace.op = "rotate_to" => obj[1].start_angle = trace.args[1] % 360

\* An arc of span 90, from -90 to 0, has been turned to the target 400.
ArcSpanIsPreservedReached ==
    /\ obj[1].kind = "ArcShape"
    /\ trace.op = "rotate_to"
    /\ trace.args = <<400>>
    /\ trace.before.start_angle = -90
    /\ trace.before.end_angle = 0
    /\ obj[1].start_angle = 40
    /\ obj[1].end_angle = 130


\* The fields of a shape that hold positions.
PositionFields == {"p0", "p1", "c", "cx", "cy", "center", "pos"}

MoveAndRotateDragsAreNoOps ==
    (trace.op = "on_handle_drag" /\ trace.args[1] \in {"move", "rotate"}) =>
        obj[1] = trace.before


\* The centroid of a shape: the midpoint of a line, the mean of the three points
\* of a quad, the centre of a rectangle's box, the centre of an ellipse, circle or
\* arc, the position of a text node.
Centroid(s) ==
    CASE IsLine(s) \/ s.kind = "RectShape" ->
           <<(s.p0[1] + s.p1[1]) \div 2, (s.p0[2] + s.p1[2]) \div 2>>
      [] s.kind = "QuadBezier" ->
           <<(s.p0[1] + s.p1[1] + s.c[1]) \div 3, (s.p0[2] + s.p1[2] + s.c[2]) \div 3>>
      [] s.kind = "EllipseShape" -> <<s.cx, s.cy>>
      [] s.kind \in {"CircleShape", "ArcShape"} -> s.center
      [] s.kind = "TextNode" -> s.pos

\* C27: every variant that exposes a "rotate" handle places it at a fixed offset
\* of 40 units from the shape's centroid (at angle 0: the point (cx, cy - 40)),
\* and the "move" handle of every variant is at that centroid.  (Handle positions
\* are whole pixels here, so the distance of a turned handle is 40 to within one.)
RotateHandleIsFortyAway ==
    LET s == obj[1]
        hs == Handles(s)
        m == Centroid(s)
    IN  \A i \in 1..Len(hs) :
            /\ hs[i][3] = "move" => <<hs[i][1], hs[i][2]>> = m
            /\ hs[i][3] = "rotate" =>
                   /\ DistSq(<<hs[i][1], hs[i][2]>>, m) > 39 * 39
                   /\ DistSq(<<hs[i][1], hs[i][2]>>, m) < 41 * 41
                   /\ AngleOf(s) = 0 => <<hs[i][1], hs[i][2]>> = <<m[1], m[2] - 40>>


\* C28: every circle has a radius >= 0 after any sequence of circle or dot tool
\* clicks and radius-handle drags; a "radius" handle drag to (x, y) sets the radius
\* to the distance from the centre to (x, y), in whole pixels here, and leaves the
\* centre unchanged (centre (0, 0), drag to (3, 4): radius 5).
RadiusDragSetsDistance ==
    LET s == obj[1]
    IN  s.kind = "CircleShape" =>
            /\ s.radius >= 0
            /\ (trace.op = "on_handle_drag" /\ trace.args[1] = "radius") =>
                   LET d2 == DistSq(s.center, <<trace.args[2], trace.args[3]>>)
                   IN  /\ s.radius * s.radius <= d2
                       /\ d2 < (s.radius + 1) * (s.radius + 1)
                       /\ s.center = trace.before.center
                       /\ (s.center = <<0, 0>> /\ trace.args = <<"radius", 3, 4>>)
                              => s.radius = 5

\* The radius handle of a circle of radius 40 about (0, 0) has been dragged to
\* (3, 4).
RadiusDragSetsDistanceReached ==
    /\ obj[1].kind = "CircleShape"
    /\ trace.op = "on_handle_drag"
    /\ trace.args = <<"radius", 3, 4>>
    /\ trace.before.center = <<0, 0>>
    /\ trace.before.radius = 40
    /\ obj[1].radius = 5


(***************************************************************************)
(* Properties of the geometry helpers and of the export                    *)
(***************************************************************************)

\* C29: snap(x, y, enabled, step), disabled, returns (x, y) unchanged; enabled,
\* for all integers x, y and every positive integer step, each returned
\* coordinate is a multiple of step at a distance of at most step/2 from the
\* input coordinate (snap(13, 27, true, 10) = (10, 30)), and snapping an already
\* snapped point returns it unchanged.
SnapRoundsToGrid ==
    trace.op = "snap" =>
        LET x == trace.args[1]
            y == trace.args[2]
            enabled == trace.args[3]
            step == trace.args[4]
            r == trace.result
        IN  /\ ~enabled => r = <<x, y>>
            /\ enabled =>
                   /\ r[1] % step = 0 /\ r[2] % step = 0
                   /\ 2 * Abs(r[1] - x) <= step
                   /\ 2 * Abs(r[2] - y) <= step
                   /\ snap(r[1], r[2], enabled, step) = r
            /\ trace.args = <<13, 27, TRUE, 10>> => r = <<10, 30>>

\* snap(13, 27, true, 10) has been computed.
SnapRoundsToGridReached ==
    /\ trace.op = "snap"
    /\ trace.args = <<13, 27, TRUE, 10>>
    /\ trace.result = <<10, 30>>


HandleCacheIsCurrent ==
    selected # None => selected.handles = Handles(obj[selected.shape])


\* C33: in Move mode each drag frame translates the selected shape by the
\* pointer displacement since the previous frame and records the pointer as
\* the new drag start; the drag start of the first frame is the (snapped)
\* pointer position at pointer-down, so that the total translation is the
\* pointer position of the latest frame minus the one at pointer-down.
MoveFramesFollowPointer ==
    /\ [][\A p \in MovePoints :
              (/\ button /\ tool = "cursor" /\ selected # None
               /\ cursor_mode = "move"
               /\ OnDrag(p[1], p[2]))
              => LET q == snap(p[1], p[2], snap_enabled, GridStep)
                     id == selected.shape
                 IN  /\ obj'[id] = MoveBy(obj[id], q[1] - drag_start[1],
                                                   q[2] - drag_start[2])
                     /\ drag_start' = q]_vars
    /\ [][\A p \in MovePoints :
              (/\ ~button /\ button'
               /\ selected' # None /\ cursor_mode' = "move"
               /\ \E hit \in HitSets : OnClick(p[1], p[2], hit))
              => drag_start' = snap(p[1], p[2], snap_enabled, GridStep)]_vars


(***************************************************************************)
(* Properties of the Document against the History                          *)
(***************************************************************************)

\* The Document that performing the Actions acts, in order, from an empty
\* Document gives: an add appends its shape, a remove deletes it, a clear
\* empties the Document.
RECURSIVE Replay(_)
Replay(acts) ==
    IF acts = <<>> THEN <<>>
    ELSE LET doc == Replay(SubSeq(acts, 1, Len(acts) - 1))
             act == acts[Len(acts)]
         IN  CASE act.type = "add" -> Append(doc, act.shape)
               [] act.type = "remove" -> SelectSeq(doc, LAMBDA s : s # act.shape)
               [] act.type = "clear" -> <<>>

\* C34: in every reachable state the Document is the result of replaying the
\* Actions of the History in order from an empty Document; so each undo leaves
\* the Document as it was just before the undone Action was performed, and
\* each shape occurs at most once in the Document.
DocumentIsReplayOfHistory ==
    /\ shapes = Replay(actions)
    /\ \A i, j \in 1..Len(shapes) : shapes[i] = shapes[j] => i = j
    /\ (trace.op = "undo" /\ trace.actions # <<>>) =>
           shapes = Replay(SubSeq(trace.actions, 1, Len(trace.actions) - 1))

\* The older of two shapes was deleted and undo has put it back below the
\* other one.
DocumentIsReplayOfHistoryReached ==
    /\ trace.op = "undo"
    /\ trace.actions # <<>>
    /\ trace.actions[Len(trace.actions)].type = "remove"
    /\ Len(shapes) = 2
    /\ shapes[1] = trace.actions[Len(trace.actions)].shape
    /\ Len(actions) = 2
    /\ shapes = Replay(actions)


\* C35: in every reachable state the Selection, when there is one, references
\* a shape that is in the Document: no sequence of add, delete, clear, undo,
\* undo_to_selected and pointer events leaves a removed shape selected.
SelectedShapeIsInDocument ==
    selected # None =>
        \E i \in 1..Len(shapes) : shapes[i] = selected.shape

\* The selected shape has just been taken out of the Document by the undo of
\* its add, while another shape stays, and nothing is selected.
SelectedShapeIsInDocumentReached ==
    /\ trace.op = "undo"
    /\ trace.selected # None
    /\ trace.selected.shape \in Range(trace.shapes)
    /\ trace.selected.shape \notin Range(shapes)
    /\ shapes # <<>>
    /\ selected = None


\* C36: every remove Action in the History records a defined index, and
\* whenever undo() pops a remove Action its index satisfies
\* 0 <= index <= len(Document): the shape is re-inserted at its recorded index
\* and the append fallback for a missing or out-of-range index is never taken.
RemoveIndexIsInRange ==
    /\ \A i \in 1..Len(actions) :
           actions[i].type = "remove" => actions[i].index # NoIndex
    /\ (actions # <<>> /\ actions[Len(actions)].type = "remove") =>
           /\ 0 <= actions[Len(actions)].index
           /\ actions[Len(actions)].index <= Len(shapes)
    /\ (trace.op = "undo" /\ trace.actions # <<>>
          /\ trace.actions[Len(trace.actions)].type = "remove") =>
           LET act == trace.actions[Len(trace.actions)]
           IN  /\ act.index \in 0..Len(trace.shapes)
               /\ Len(shapes) = Len(trace.shapes) + 1
               /\ shapes[act.index + 1] = act.shape

\* undo has popped a remove Action whose index is the Document's length: the
\* newer of two shapes was deleted and is back at the end.
RemoveIndexIsInRangeReached ==
    /\ trace.op = "undo"
    /\ trace.actions # <<>>
    /\ trace.actions[Len(trace.actions)].type = "remove"
    /\ trace.actions[Len(trace.actions)].index = 1
    /\ Len(trace.shapes) = 1
    /\ Len(shapes) = 2
    /\ shapes[2] = trace.actions[Len(trace.actions)].shape


\* C37: whenever a drag mode is active (the cursor mode is move, rotate or
\* handle) a Selection exists and references a shape of the Document, under
\* every interleaving of the pointer events with the key events and the tool
\* changes; and the mode's data is set: move has a drag start, rotate a pivot
\* and a base angle, handle an active handle kind other than move and rotate.
DragModeHasSelection ==
    cursor_mode \in {"move", "rotate", "handle"} =>
        /\ selected # None
        /\ selected.shape \in Range(shapes)
        /\ cursor_mode = "move" => drag_start # None
        /\ cursor_mode = "rotate" =>
               rotate_center # None /\ rotate_base_angle # NoAngle
        /\ cursor_mode = "handle" => active_handle \notin {NoneS, "move", "rotate"}


\* C38: undo_to_selected always terminates: inside its loop the History is not
\* empty and each call of undo() shortens the History by exactly one Action,
\* so for a list entry k with k+1 < n, n the length of the History, the loop
\* makes exactly n-(k+1) calls of undo() and then stops.
UndoToTerminates ==
    /\ []((pc = "undo_to" /\ Len(actions) > target_len) => actions # <<>>)
    /\ [][UndoToStep => Len(actions') = Len(actions) - 1]_vars
    /\ []((trace.op = "undoTo" /\ trace.done /\ trace.k + 1 < Len(trace.actions))
             => trace.calls = Len(trace.actions) - (trace.k + 1))
    /\ []((trace.op = "undoTo" /\ pc = "undo_to")
             => trace.calls = Len(trace.actions) - Len(actions))
    /\ (pc = "undo_to") ~> (pc = "idle")

\* The loop has stopped after three calls of undo(), which emptied neither the
\* History nor left it as it was.
UndoToTerminatesReached ==
    /\ trace.op = "undoTo" /\ trace.done
    /\ pc = "idle"
    /\ trace.k = 0
    /\ Len(trace.actions) = 4
    /\ trace.calls = 3
    /\ Len(actions) = 1


\* C39: a drag frame in any mode changes at most the selected shape: the
\* geometry of every other shape of the Document, the staging buffer and the
\* Selection are left as they are (and so are the Document and the History),
\* and on_drag changes nothing at all when the tool is not cursor or nothing
\* is selected.
DragFrameTouchesSelectedOnly ==
    [][\A p \in RotatePoints :
          (button /\ OnDrag(p[1], p[2]))
          => /\ shapes' = shapes
             /\ actions' = actions
             /\ clicks' = clicks
             /\ selected' = selected
             /\ \A i \in 1..Len(shapes) :
                    (selected = None \/ shapes[i] # selected.shape)
                        => obj'[shapes[i]] = obj[shapes[i]]
             /\ (tool # "cursor" \/ selected = None)
                    => UNCHANGED <<tool, snap_enabled, shapes, obj, next_id, actions,
                                   clicks, selected, ctl, status, button>>]_vars

\* One of two shapes has just been moved by a drag frame, the other lies where
\* it was drawn.
DragFrameTouchesSelectedOnlyReached ==
    /\ trace.op = "drag"
    /\ trace.mode = "move"
    /\ Len(shapes) = 2
    /\ selected # None
    /\ selected.shape = shapes[1]
    /\ selected.handles # Handles(obj[selected.shape])
    /\ obj[shapes[2]].kind = "RectShape"
    /\ obj[shapes[2]].p0 = <<0, 0>>
    /\ obj[shapes[2]].p1 = <<0, 40>>


(***************************************************************************)
(* Properties of the drawing of arcs                                       *)
(***************************************************************************)

\* C40: the assertions in ArcShape.draw hold whenever an arc is drawn: every
\* arc made by the arc tool keeps centre coordinates of type int (and a radius
\* of type float) under any sequence of tool clicks, Move drags and start/end
\* handle drags, the pointer coordinates being integers, snapped or not.
ArcDrawChecksHold ==
    \A i \in 1..Len(shapes) : DrawChecks(obj[shapes[i]])

\* An arc whose clicks were taken with and without snapping has been moved by
\* a drag frame made without snapping, to a centre off the grid.
ArcDrawChecksHoldReached ==
    /\ shapes # <<>>
    /\ trace.op = "drag"
    /\ trace.mode = "move"
    /\ ~snap_enabled
    /\ obj[shapes[1]].center = <<IntNum(6), IntNum(8)>>
    /\ obj[shapes[1]].radius = FloatNum(5)
    /\ selected # None
    /\ selected.handles # Handles(Untyped(obj[shapes[1]]))

=============================================================================
